---- MODULE Spec2Model ----
(***************************************************************************)
(* A model of the go-apigorowler step interpreter (src/crawler.go).        *)
(*                                                                         *)
(* SpecPar  : one forEach step, executed by executeForEachParallel         *)
(*            (workers, semaphore, results channel, collector, the merge   *)
(*            mutex) or by the sequential branch of handleForEach.         *)
(* SpecRun  : Run over the steps of a manifest: ExecuteStep, handleRequest *)
(*            with its page loop (paginator, prepareHTTPRequest, decode,   *)
(*            transform, nested steps, performMerge, stream drain) and the *)
(*            sequential handleForEach, over a store of contexts.          *)
(***************************************************************************)
EXTENDS Naturals, Integers, Sequences, FiniteSets, TLC

\* ------------------------------------------------------------------ bounds
MaxItems == 3
MaxPages == 3
MaxPageLen == 2
MaxValues == 2
MaxClock == 2

\* crawler.go:1256  maxConcurrency = 10 // Default concurrency
DefaultConcurrency == 10

\* ------------------------------------------------------- JSON data values
\* interface{} values as decoded by encoding/json: a tagged variant.
JSeq(s) == [kind |-> "seq", v |-> s]
JMap(m) == [kind |-> "map", v |-> m]
JNum(n) == [kind |-> "num", v |-> n]
JNull == [kind |-> "null", v |-> 0]

Overlay(a, b) == [k \in (DOMAIN a) \cup (DOMAIN b) |-> IF k \in DOMAIN b THEN b[k] ELSE a[k]]

\* AuthenticatorConfig; Type "" stands for no auth section (NoopAuthenticator)
AuthConfig(type, from, sel, into, key, maxAge, onePerRun) ==
  [Type |-> type, ExtractFrom |-> from, ExtractSelector |-> sel, InjectInto |-> into,
   InjectKey |-> key, MaxAgeSeconds |-> maxAge, OnePerRun |-> onePerRun]

NoAuth == AuthConfig("", "", "", "", "", 0, FALSE)

VARIABLES
  \* ---- SpecPar: configuration (read-only during the crawl)
  step,            \* the forEach step: Parallel, MaxConcurrency, NoopMerge, MergeOn
  nested,          \* the request step nested in it: MergeWithParentOn, NoopMerge
  failItem,        \* index of the item whose response is not valid JSON (0: none)
  \* ---- SpecPar: interpreter state
  rootData,        \* Data of the forEach's current context
  items,           \* results extracted by the path
  childData,       \* Data of the child context of each iteration
  mainPc,          \* position of handleForEach / Run
  runErr,          \* error returned by Run ("" while none)
  seqIdx,          \* loop index of the sequential branch
  \* ---- SpecPar: executeForEachParallel
  pc,              \* position of each worker goroutine
  semaphore,       \* number of slots taken
  semCap,          \* capacity of the semaphore channel
  resultsChan,     \* buffered channel of forEachResult
  closed,          \* resultsChan closed
  wg,              \* sync.WaitGroup counter
  results,         \* collector: results[result.index] = result
  executionResults,
  \* ---- SpecPar: shared crawler state
  mergeMutex,      \* 0 when free, else the holder
  updated,         \* per worker: value computed by the merge, not yet stored
  templateCache,   \* set of compiled templates (unsynchronised map)
  crashed,         \* the Go runtime aborted the process
  arrival,         \* history: indices in the order the collector received them
  ownMergeApplied, \* history: the forEach step's own merge has written
  \* ---- SpecPar: the authenticator the workers share
  parAuthenticator, \* c.globalAuthenticator
  authMu,          \* a.mu: 0 when free, else the holder
  parLogins,       \* history: number of login sub-requests sent
  prepared,        \* history: per worker, the request as PrepareRequest left it
  \* ---- SpecPar: the token bucket of the step
  rateLimiter,     \* the *rate.Limiter of handleForEach: on FALSE when nil
  took             \* history: the iterations that have taken a token

VARIABLES
  \* ---- SpecRun: configuration (read-only during the crawl)
  Config,          \* the manifest: RootContext, Stream, Headers, Steps
  httpResults,     \* what the list endpoint answers, request by request
  \* ---- SpecRun: interpreter state
  contexts,        \* the Context objects, in the order of their creation
  frames,          \* the stepExecution of every handler on the call stack
  runPc,           \* position of Run
  runNext,         \* index of the next top-level step
  runError,        \* error returned by Run ("" while none)
  panicked,        \* the Go runtime aborted the process
  \* ---- SpecRun: what the outside has seen
  issued,          \* history: the requests sent, in order
  stopLog,         \* history: the results of paginator.Next, in order
  streamed,        \* the records the consumer has taken from DataStream
  mergedIntoRoot,  \* history: the records merges have put into the root
  replacedInRoot,  \* history: positions in mergedIntoRoot of the records a
                   \* later write to the root has replaced
  drains,          \* history: the contexts emptied by a stream drain
  events,          \* history: the START and END events sent to the profiler
  \* ---- SpecRun: the caller of Run
  cancelled,       \* the ctx passed to Run is cancelled
  cancelledAtStart, \* history: ctx was cancelled when Run was called
  profiler,        \* "nil", or "on" after EnableProfiler
  aggregated,      \* SpecBoth: what the run without stream has produced
  loginMode,       \* how the login endpoint answers
  \* ---- SpecRun: authenticators and time
  authenticators,  \* the authenticator objects, in the order of their creation
  clock,           \* time.Now(), in seconds
  logins           \* history: the login sub-requests sent, in order

runCfg == <<Config, httpResults>>

runHist == <<issued, stopLog, streamed, mergedIntoRoot, replacedInRoot, drains, events>>

\* the history but the profiler events
runSeen == <<issued, stopLog, streamed, mergedIntoRoot, replacedInRoot, drains>>

runEnv == <<cancelled, cancelledAtStart, profiler, aggregated, loginMode>>

runAuth == <<authenticators, clock, logins>>

runVars == <<Config, httpResults, contexts, frames, runPc, runNext, runError, panicked,
             issued, stopLog, streamed, mergedIntoRoot, replacedInRoot, drains, events,
             cancelled, cancelledAtStart, profiler, aggregated, loginMode, authenticators,
             clock, logins>>

\* no run without stream has been made
NoAggregate == [made |-> FALSE, err |-> "", data |-> [kind |-> "null"]]

\* SpecPar leaves the interpreter of SpecRun unused
RunIdle ==
  /\ Config = [RootContext |-> [kind |-> "seq", v |-> <<>>], Stream |-> FALSE,
               Headers |-> <<>>, Authentication |-> NoAuth, Steps |-> <<>>]
  /\ httpResults = <<>>
  /\ contexts = <<>>
  /\ frames = <<>>
  /\ runPc = "idle"
  /\ runNext = 0
  /\ runError = ""
  /\ panicked = FALSE
  /\ issued = <<>>
  /\ stopLog = <<>>
  /\ streamed = <<>>
  /\ mergedIntoRoot = <<>>
  /\ replacedInRoot = {}
  /\ drains = <<>>
  /\ events = <<>>
  /\ cancelled = FALSE
  /\ cancelledAtStart = FALSE
  /\ profiler = "nil"
  /\ aggregated = NoAggregate
  /\ loginMode = "ok"
  /\ authenticators = <<>>
  /\ clock = 0
  /\ logins = <<>>

parVars == <<step, nested, failItem, rootData, items, childData, mainPc, runErr, seqIdx,
             pc, semaphore, semCap, resultsChan, closed, wg, results, executionResults,
             mergeMutex, updated, templateCache, crashed, arrival, ownMergeApplied,
             parAuthenticator, authMu, parLogins, prepared, rateLimiter, took>>

parAuth == <<parAuthenticator, authMu, parLogins, prepared>>

parLimiter == <<rateLimiter, took>>

parCfg == <<step, nested, failItem>>

parHist == <<arrival, ownMergeApplied>>

vars == <<parVars, runVars>>

\* --------------------------------------------------------------- helpers
NoResult == [index |-> 0, result |-> JNull, err |-> "unset"]

ItemValue(i) == JMap([id |-> i])

\* the mock HTTP endpoint: the decoded body for the URL rendered from an item
Response(item) == JMap([id |-> item.v.id, price |-> 10 + item.v.id])

URLTemplate == "https://api.example.com/items/{{ .item.id }}"

\* example2.yaml: the rule that collects one entry per response
DetailsRule == ".details = (.details // []) + [$res]"

\* jq merge rules, by what they evaluate to: the stream of output values
RunRule(rule, data, res) ==
  CASE rule = DetailsRule ->
         <<JMap(Overlay(data.v,
                  [details |-> JSeq((IF "details" \in DOMAIN data.v
                                       THEN data.v["details"].v ELSE <<>>) \o <<res>>)]))>>
    [] rule = ".merged += [$res]" ->
         <<JMap([data.v EXCEPT !.merged = JSeq(data.v.merged.v \o <<res>>)])>>
    [] rule = ".results = $res" ->
         <<JMap(Overlay(data.v, [results |-> res]))>>
    [] rule = ". += [$res]" ->
         <<JSeq((IF data.kind = "seq" THEN data.v ELSE <<>>) \o <<res>>)>>
    [] rule = ".detail = $res" ->
         <<JMap(Overlay(data.v, [detail |-> res]))>>
    [] rule = "empty" -> <<>>
    [] OTHER -> <<data, data>>

\* jq reports an error: a field of a sequence, a sequence added to a mapping
RuleFails(rule, data) ==
  CASE rule = ". += [$res]" -> data.kind \notin {"seq", "null"}
    [] rule \in {".merged += [$res]", ".results = $res", ".detail = $res", DetailsRule} ->
         data.kind # "map"
    [] OTHER -> FALSE

\* applyMergeRule: exactly one value or an error
applyMergeRule(contextData, rule, res) ==
  LET values == RunRule(rule, contextData, res)
  IN IF RuleFails(rule, contextData)
       THEN [err |-> "error running JQ", value |-> JNull]
     ELSE IF Len(values) # 1
       THEN [err |-> "merge rule must produce exactly one result", value |-> JNull]
       ELSE [err |-> "", value |-> values[1]]

\* performMerge, 4. default merge: op.result.([]interface{}) panics on a
\* sequence target when the incoming value is no sequence
DefaultMergePanics(data, res) == data.kind = "seq" /\ res.kind # "seq"

DefaultMerge(data, res) ==
  CASE data.kind = "seq" -> JSeq(data.v \o res.v)
    [] data.kind = "map" -> IF res.kind = "map" THEN JMap(Overlay(data.v, res.v)) ELSE data
    [] OTHER -> res

\* handleForEach, default: <path> = $new
DefaultPatch(data, new) == JMap([data.v EXCEPT !.ids = JSeq(new)])

\* maxConcurrency as handleForEach passes it on
MaxConcurrencyOf(st) == IF st.MaxConcurrency = 0 THEN DefaultConcurrency ELSE st.MaxConcurrency

Workers == 1..Len(items)

\* rateLimit of a step: the nil pointer
NoRateLimit == [RequestsPerSecond |-> 0, Burst |-> 0]

NoLimiter == [on |-> FALSE, tokens |-> 0, burst |-> 0]

\* createRateLimiter: nil without a positive rate; the bucket starts full
createRateLimiter(stepLimit) ==
  IF stepLimit.RequestsPerSecond <= 0 THEN NoLimiter
  ELSE LET burst == IF stepLimit.Burst <= 0 THEN 1 ELSE stepLimit.Burst
       IN [on |-> TRUE, tokens |-> burst, burst |-> burst]

\* ------------------------------------------------------------ SpecPar: Init
ForEachSteps ==
  { [Parallel |-> p, MaxConcurrency |-> mc, NoopMerge |-> nm, MergeOn |-> mo,
     RateLimit |-> NoRateLimit] :
      p \in BOOLEAN, mc \in 0..2, nm \in BOOLEAN, mo \in {"", ".results = $res"} }
    \cup
  { [Parallel |-> p, MaxConcurrency |-> 2, NoopMerge |-> FALSE, MergeOn |-> "",
     RateLimit |-> [RequestsPerSecond |-> 1, Burst |-> b]] : p \in BOOLEAN, b \in 0..1 }

\* validateStep: noopMerge excludes the expression directives
ValidForEach(st) == ~(st.NoopMerge /\ st.MergeOn # "")

NestedSteps ==
  { [Type |-> "request", MergeWithParentOn |-> mp, NoopMerge |-> FALSE] :
      mp \in {"", ".merged += [$res]"} }
    \cup {[Type |-> "forEach", MergeWithParentOn |-> "", NoopMerge |-> FALSE]}

\* the nested forEach (path ".", no steps of its own, no directive) patches
\* the item context with the sequence of its one iteration
NestedPatch(item) == JSeq(<<item>>)

\* ------------------------------------------------- SpecPar: merge directive
\* performMerge: which context the directive of a request step writes
MergeTarget(st) ==
  IF st.NoopMerge THEN "none"
  ELSE IF st.MergeWithParentOn # "" THEN "parent"
  ELSE "current"

\* performMerge: the value it stores in that context (or the error)
MergeValue(st, curData, parentData, res) ==
  CASE MergeTarget(st) = "none" -> [err |-> "", value |-> JNull]
    [] MergeTarget(st) = "parent" -> applyMergeRule(parentData, st.MergeWithParentOn, res)
    [] OTHER -> [err |-> "", value |-> DefaultMerge(curData, res)]

\* performMerge: the effect of the store on the data of the forEach's current
\* context. The rule-based merge replaces parentCtx.Data. The default merge of
\* a mapping writes data[k] = v into the item's own map object, which is the
\* object held at position i of the sequence the path selected.
StoreMerge(st, parentData, i, value) ==
  CASE MergeTarget(st) = "parent" -> value
    [] MergeTarget(st) = "current" /\ value.kind = "map" ->
         JMap([parentData.v EXCEPT !.ids = JSeq([parentData.v.ids.v EXCEPT ![i] = value])])
    [] OTHER -> parentData

\* c.mergeMutex.Lock() returns only when nobody holds the mutex
MergeMutexIgnored == TRUE

MergeMutexFree == mergeMutex = 0

\* semaphore <- struct{}{} blocks while the channel is full
SemaphoreUnbounded == TRUE

SemaphoreHasSlot == semaphore < semCap

\* collector: if result.err != nil
ResultErrSwallowed(r) == FALSE

ResultIsErr(r) == r.err # ""

\* collector: results[result.index] = result
PlaceInArrivalOrder(res, r) ==
  LET free == {i \in DOMAIN res : res[i].err = "unset"}
      slot == CHOOSE i \in free : \A j \in free : i <= j
  IN [res EXCEPT ![slot] = r]

PlaceResult(res, r) == [res EXCEPT ![r.index] = r]

\* --------------------------------------------------------- SpecPar: actions
\* handleForEach: extract the items; parallel: set up and launch the workers
ForEachExtract ==
  /\ ~crashed
  /\ mainPc = "extract"
  /\ LET its == rootData.v.ids.v
         n == Len(its)
     IN /\ items' = its
        /\ childData' = [i \in 1..n |-> JNull]
        /\ updated' = [i \in 1..n |-> JNull]
        /\ IF step.Parallel
             THEN /\ semCap' = MaxConcurrencyOf(step)
                  /\ rateLimiter' = createRateLimiter(step.RateLimit)
                  /\ pc' = [i \in 1..n |-> "spawned"]
                  /\ wg' = n
                  /\ results' = [i \in 1..n |-> NoResult]
                  /\ mainPc' = "collect"
                  /\ seqIdx' = seqIdx
             ELSE /\ mainPc' = "serial"
                  /\ seqIdx' = 1
                  /\ pc' = [i \in 1..n |-> "unused"]
                  /\ UNCHANGED <<semCap, wg, results, rateLimiter>>
  /\ UNCHANGED <<runVars, parAuth, took, parCfg, parHist, rootData, runErr, semaphore, resultsChan, closed,
                 executionResults, mergeMutex, templateCache, crashed>>

\* prepareHTTPRequest ends with ctx.authenticator.PrepareRequest; the
\* NoopAuthenticator has nothing to do
AfterTemplate == IF parAuthenticator.Type = "" THEN "http" ELSE "auth"

\* worker: the nested step is a forEach: its default patch assigns
\* exec.currentContext.Data; handleForEach takes no lock for it
WorkerPatch(i) ==
  /\ ~crashed
  /\ pc[i] = "patch"
  /\ childData' = [childData EXCEPT ![i] = NestedPatch(@)]
  /\ pc' = [pc EXCEPT ![i] = "send"]
  /\ UNCHANGED <<runVars, parAuth, parLimiter, parCfg, parHist, rootData, items, mainPc, runErr,
                 seqIdx, semaphore, semCap, resultsChan, closed, wg, results, executionResults,
                 mergeMutex, updated, templateCache, crashed>>

\* worker: semaphore <- struct{}{}
WorkerAcquire(i) ==
  /\ ~crashed
  /\ pc[i] = "spawned"
  /\ SemaphoreHasSlot
  /\ semaphore' = semaphore + 1
  /\ pc' = [pc EXCEPT ![i] = IF rateLimiter.on THEN "wait" ELSE "acquired"]
  /\ UNCHANGED <<runVars, parAuth, parLimiter, parCfg, parHist, rootData, items, childData, mainPc, runErr, seqIdx,
                 semCap, resultsChan, closed, wg, results, executionResults, mergeMutex,
                 updated, templateCache, crashed>>

\* rateLimiter.Wait(ctx) returns only with a token
TokenAvailable == rateLimiter.tokens > 0

\* worker: if rateLimiter != nil { rateLimiter.Wait(ctx) }
WorkerWait(i) ==
  /\ ~crashed
  /\ pc[i] = "wait"
  /\ TokenAvailable
  /\ rateLimiter' = [rateLimiter EXCEPT !.tokens = IF @ > 0 THEN @ - 1 ELSE 0]
  /\ took' = took \cup {i}
  /\ pc' = [pc EXCEPT ![i] = "acquired"]
  /\ UNCHANGED <<runVars, parAuth, parCfg, parHist, rootData, items, childData, mainPc, runErr,
                 seqIdx, semaphore, semCap, resultsChan, closed, wg, results, executionResults,
                 mergeMutex, updated, templateCache, crashed>>

\* time passes: the bucket gains a token, up to burst
Refill ==
  /\ ~crashed
  /\ rateLimiter.on
  /\ rateLimiter.tokens < rateLimiter.burst
  /\ \E i \in Workers : pc[i] \in {"spawned", "wait"}
  /\ rateLimiter' = [rateLimiter EXCEPT !.tokens = @ + 1]
  /\ UNCHANGED <<runVars, parAuth, took, parCfg, parHist, rootData, items, childData, mainPc,
                 runErr, seqIdx, pc, semaphore, semCap, resultsChan, closed, wg, results,
                 executionResults, mergeMutex, updated, templateCache, crashed>>

\* worker: executeForEachIteration creates the child context; the nested request
\* step looks its URL template up in the cache
WorkerStart(i) ==
  /\ ~crashed
  /\ pc[i] = "acquired"
  /\ childData' = [childData EXCEPT ![i] = items[i]]
  /\ pc' = [pc EXCEPT ![i] = IF nested.Type = "forEach" THEN "patch"
                              ELSE IF URLTemplate \in templateCache THEN AfterTemplate
                              ELSE "compile"]
  /\ UNCHANGED <<runVars, parAuth, parLimiter, parCfg, parHist, rootData, items, mainPc, runErr, seqIdx, semaphore,
                 semCap, resultsChan, closed, wg, results, executionResults, mergeMutex,
                 updated, templateCache, crashed>>

\* worker: getOrCompileTemplate stores into the map without a lock; two writers
\* at once are a data race the runtime may abort on
WorkerCompile(i) ==
  /\ ~crashed
  /\ pc[i] = "compile"
  /\ \/ /\ templateCache' = templateCache \cup {URLTemplate}
        /\ pc' = [pc EXCEPT ![i] = AfterTemplate]
        /\ UNCHANGED crashed
     \/ /\ \E j \in Workers \ {i} : pc[j] = "compile"
        /\ crashed' = TRUE
        /\ UNCHANGED <<templateCache, pc>>
  /\ UNCHANGED <<runVars, parAuth, parLimiter, parCfg, parHist, rootData, items, childData, mainPc, runErr, seqIdx,
                 semaphore, semCap, resultsChan, closed, wg, results, executionResults,
                 mergeMutex, updated>>

\* worker: send result, release the slot (deferred), wg.Done (deferred)
Deliver(i, r) ==
  /\ resultsChan' = Append(resultsChan, r)
  /\ semaphore' = semaphore - 1
  /\ wg' = wg - 1
  /\ pc' = [pc EXCEPT ![i] = "exited"]

\* worker: httpClient.Do, decode; a decode error ends the iteration
WorkerHTTP(i) ==
  /\ ~crashed
  /\ pc[i] = "http"
  /\ IF i = failItem
       THEN /\ Deliver(i, [index |-> i, result |-> JNull, err |-> "error decoding response JSON"])
       ELSE /\ pc' = [pc EXCEPT ![i] = "lock"]
            /\ UNCHANGED <<resultsChan, semaphore, wg>>
  /\ UNCHANGED <<runVars, parAuth, parLimiter, parCfg, parHist, rootData, items, childData, mainPc, runErr, seqIdx,
                 semCap, closed, results, executionResults, mergeMutex, updated,
                 templateCache, crashed>>

\* worker: performMerge, c.mergeMutex.Lock()
WorkerLock(i) ==
  /\ ~crashed
  /\ pc[i] = "lock"
  /\ MergeMutexFree
  /\ mergeMutex' = i
  /\ pc' = [pc EXCEPT ![i] = "apply"]
  /\ UNCHANGED <<runVars, parAuth, parLimiter, parCfg, parHist, rootData, items, childData, mainPc, runErr, seqIdx,
                 semaphore, semCap, resultsChan, closed, wg, results, executionResults,
                 updated, templateCache, crashed>>

\* worker: performMerge evaluates the directive on the target's current data
WorkerApply(i) ==
  /\ ~crashed
  /\ pc[i] = "apply"
  /\ LET m == MergeValue(nested, childData[i], rootData, Response(items[i]))
     IN IF m.err # ""
          THEN /\ Deliver(i, [index |-> i, result |-> JNull, err |-> m.err])
               /\ mergeMutex' = 0
               /\ UNCHANGED updated
          ELSE /\ updated' = [updated EXCEPT ![i] = m.value]
               /\ pc' = [pc EXCEPT ![i] = "write"]
               /\ UNCHANGED <<resultsChan, semaphore, wg, mergeMutex>>
  /\ UNCHANGED <<runVars, parAuth, parLimiter, parCfg, parHist, rootData, items, childData, mainPc, runErr, seqIdx,
                 semCap, closed, results, executionResults, templateCache, crashed>>

\* worker: performMerge stores the value and unlocks (deferred); the request
\* step returns and the iteration's result is the child context's data
WorkerWrite(i) ==
  /\ ~crashed
  /\ pc[i] = "write"
  /\ rootData' = StoreMerge(nested, rootData, i, updated[i])
  /\ childData' = IF MergeTarget(nested) = "current"
                    THEN [childData EXCEPT ![i] = updated[i]] ELSE childData
  /\ mergeMutex' = 0
  /\ pc' = [pc EXCEPT ![i] = "send"]
  /\ UNCHANGED <<runVars, parAuth, parLimiter, parCfg, parHist, items, mainPc, runErr, seqIdx, semaphore, semCap,
                 resultsChan, closed, wg, results, executionResults, updated,
                 templateCache, crashed>>

\* worker: resultsChan <- result
WorkerSend(i) ==
  /\ ~crashed
  /\ pc[i] = "send"
  /\ Deliver(i, [index |-> i, result |-> childData[i], err |-> ""])
  /\ UNCHANGED <<runVars, parAuth, parLimiter, parCfg, parHist, rootData, items, childData, mainPc, runErr, seqIdx,
                 semCap, closed, results, executionResults, mergeMutex, updated,
                 templateCache, crashed>>

\* go func() { wg.Wait(); close(resultsChan) }()
CloseResults ==
  /\ ~crashed
  /\ mainPc # "extract"
  /\ step.Parallel
  /\ wg = 0
  /\ ~closed
  /\ closed' = TRUE
  /\ UNCHANGED <<runVars, parAuth, parLimiter, parCfg, parHist, rootData, items, childData, mainPc, runErr, seqIdx,
                 pc, semaphore, semCap, resultsChan, wg, results, executionResults,
                 mergeMutex, updated, templateCache, crashed>>

\* collector: for result := range resultsChan
Collect ==
  /\ ~crashed
  /\ mainPc = "collect"
  /\ resultsChan # <<>>
  /\ LET r == Head(resultsChan)
     IN /\ resultsChan' = Tail(resultsChan)
        /\ arrival' = Append(arrival, r.index)
        /\ IF ResultIsErr(r)
             THEN /\ mainPc' = "failed"
                  /\ runErr' = r.err
                  /\ UNCHANGED results
             ELSE /\ results' = PlaceResult(results, r)
                  /\ UNCHANGED <<mainPc, runErr>>
  /\ UNCHANGED <<runVars, parAuth, parLimiter, parCfg, ownMergeApplied, rootData, items, childData, seqIdx, pc, semaphore,
                 semCap, closed, wg, executionResults, mergeMutex, updated, templateCache,
                 crashed>>

\* collector: the channel is closed and drained; extract the results in order
CollectDone ==
  /\ ~crashed
  /\ mainPc = "collect"
  /\ resultsChan = <<>>
  /\ closed
  /\ executionResults' = [i \in 1..Len(items) |-> results[i].result]
  /\ mainPc' = "merge"
  /\ UNCHANGED <<runVars, parAuth, parLimiter, parCfg, parHist, rootData, items, childData, runErr, seqIdx, pc,
                 semaphore, semCap, resultsChan, closed, wg, results, mergeMutex, updated,
                 templateCache, crashed>>

\* handleForEach, sequential branch: one whole iteration
SerialIteration ==
  /\ ~crashed
  /\ mainPc = "serial"
  /\ seqIdx <= Len(items)
  /\ templateCache' = templateCache \cup {URLTemplate}
  /\ LET item == items[seqIdx]
         m == MergeValue(nested, item, rootData, Response(item))
         child == IF MergeTarget(nested) = "current" THEN m.value ELSE item
     IN IF seqIdx = failItem \/ m.err # ""
          THEN /\ mainPc' = "failed"
               /\ runErr' = IF seqIdx = failItem THEN "error decoding response JSON" ELSE m.err
               /\ UNCHANGED <<rootData, childData, executionResults, seqIdx>>
          ELSE /\ rootData' = StoreMerge(nested, rootData, seqIdx, m.value)
               /\ childData' = [childData EXCEPT ![seqIdx] = child]
               /\ executionResults' = Append(executionResults, child)
               /\ seqIdx' = seqIdx + 1
               /\ UNCHANGED <<mainPc, runErr>>
  /\ UNCHANGED <<runVars, parAuth, parLimiter, parCfg, parHist, items, pc, semaphore, semCap, resultsChan, closed,
                 wg, results, mergeMutex, updated, crashed>>

SerialDone ==
  /\ ~crashed
  /\ mainPc = "serial"
  /\ seqIdx > Len(items)
  /\ mainPc' = "merge"
  /\ UNCHANGED <<runVars, parAuth, parLimiter, parCfg, parHist, rootData, items, childData, runErr, seqIdx, pc,
                 semaphore, semCap, resultsChan, closed, wg, results, executionResults,
                 mergeMutex, updated, templateCache, crashed>>

\* handleForEach: the step's own merge (custom directive under the mutex, or
\* the default patch), then the step and Run return
ForEachMerge ==
  /\ ~crashed
  /\ mainPc = "merge"
  /\ IF step.MergeOn # "" \/ step.NoopMerge
       THEN /\ MergeMutexFree
            /\ IF step.NoopMerge
                 THEN /\ mainPc' = "done"
                      /\ UNCHANGED <<rootData, runErr, ownMergeApplied>>
                 ELSE LET m == applyMergeRule(rootData, step.MergeOn, JSeq(executionResults))
                      IN IF m.err # ""
                           THEN /\ mainPc' = "failed"
                                /\ runErr' = m.err
                                /\ UNCHANGED <<rootData, ownMergeApplied>>
                           ELSE /\ rootData' = m.value
                                /\ ownMergeApplied' = TRUE
                                /\ mainPc' = "done"
                                /\ UNCHANGED runErr
       ELSE /\ rootData' = DefaultPatch(rootData, executionResults)
            /\ ownMergeApplied' = TRUE
            /\ mainPc' = "done"
            /\ UNCHANGED runErr
  /\ UNCHANGED <<runVars, parAuth, parLimiter, parCfg, arrival, items, childData, seqIdx, pc, semaphore, semCap,
                 resultsChan, closed, wg, results, executionResults, mergeMutex, updated,
                 templateCache, crashed>>

\* ----------------------------------------------------------- SpecPar: claims
\* what the sequential branch yields for the same step: per item, the final
\* data of its child context
SerialResults ==
  [i \in 1..Len(items) |->
     IF nested.Type = "forEach" THEN NestedPatch(items[i])
     ELSE IF MergeTarget(nested) = "current"
       THEN DefaultMerge(items[i], Response(items[i])) ELSE items[i]]

Executing == {"wait", "acquired", "patch", "compile", "auth", "login", "inject", "http", "lock", "apply",
              "write", "send"}

Running == {i \in Workers : pc[i] \in Executing}

Collected == mainPc \in {"merge", "done"}

\* C1: once a parallel forEach has collected its results, whatever order the
\* iterations completed in, the aggregated sequence has one entry per extracted
\* item, entry i is the final data of the child context of item i, and the
\* sequence is the one the sequential branch yields.
C1_ParallelResultsInIndexOrder ==
  (step.Parallel /\ Collected) =>
     /\ Len(executionResults) = Len(items)
     /\ \A i \in 1..Len(items) : executionResults[i] = childData[i]
     /\ executionResults = SerialResults

C1_Witness ==
  /\ step.Parallel
  /\ mainPc = "done"
  /\ Len(items) = MaxItems
  /\ arrival[1] > arrival[2]

\* C2: when the iterations of a parallel forEach each merge their result into
\* the same ancestor context, every iteration whose merge has returned is
\* reflected in the ancestor's data, exactly once, under every interleaving.
C2_NoMergeLost ==
  (step.Parallel /\ MergeTarget(nested) = "parent" /\ mainPc # "extract") =>
     LET merged == rootData.v.merged.v
         mergedBy == {i \in Workers : pc[i] \in {"send", "exited"} /\ i # failItem}
     IN /\ Len(merged) = Cardinality(mergedBy)
        /\ \A i \in mergedBy : \E k \in 1..Len(merged) : merged[k] = Response(items[i])

C2_Witness ==
  /\ step.Parallel
  /\ MergeTarget(nested) = "parent"
  /\ mainPc = "done"
  /\ Len(rootData.v.merged.v) = MaxItems
  /\ rootData.v.merged.v[1] # Response(items[1])

\* C3: if an iteration of a parallel forEach has failed, the step does not
\* complete normally; when it returns it returns that error, its own merge has
\* not been applied, and Run returns the error.
C3_ParallelErrorPropagates ==
  (step.Parallel /\ \E i \in Workers : pc[i] = "exited" /\ i = failItem) =>
     /\ ~Collected
     /\ mainPc = "failed" =>
          /\ runErr = "error decoding response JSON"
          /\ ~ownMergeApplied
          /\ "results" \notin DOMAIN rootData.v

C3_Witness ==
  /\ step.Parallel
  /\ mainPc = "failed"
  /\ runErr # ""
  /\ Len(arrival) >= 2

\* C4: at every moment at most maxConcurrency iterations of a parallel forEach
\* hold a worker slot and execute their nested steps; with maxConcurrency unset
\* or 0 the bound is 10.
C4_BoundedConcurrency ==
  (step.Parallel /\ mainPc # "extract") =>
     /\ semCap = (IF step.MaxConcurrency = 0 THEN 10 ELSE step.MaxConcurrency)
     /\ Cardinality(Running) <= semCap
     /\ semaphore = Cardinality(Running)

C4_Witness ==
  /\ step.Parallel
  /\ step.MaxConcurrency = 2
  /\ Cardinality(Running) = 2
  /\ \E i \in Workers : pc[i] = "spawned"

\* =====================================================================
\* SpecRun: Run over the top-level steps; handleRequest with its page loop
\* =====================================================================

\* ---------------------------------------------------------------- values
JStr(s) == [kind |-> "str", v |-> s]

\* a JSON string that holds a URL
JUrl(u) == [kind |-> "url", v |-> u]

\* strconv / fmt.Sprintf("%v") of the integers the model uses
Digits == <<"0", "1", "2", "3", "4", "5", "6", "7", "8", "9">>

IntToStr(n) == IF n + 1 \in DOMAIN Digits THEN Digits[n + 1] ELSE "many"

\* fmt.Sprintf("%v", v) of a decoded JSON scalar; nil prints as "<nil>"
\* (testdata/paginator/test3_next_token.yaml, paginationState of response 3)
Format(v) ==
  CASE v.kind = "num" -> IntToStr(v.v)
    [] v.kind = "null" -> "<nil>"
    [] OTHER -> v.v

\* ------------------------------------------------------------------ URLs
\* A URL is its part before "?" (a base and the number a template or the
\* server put at its end) and its raw query: the k=v pairs in the order in
\* which the text holds them.
NoURL == [base |-> "", id |-> 0, query |-> <<>>]

\* the keys of the model's query strings in the order sort.Strings gives
KeyOrder == <<"api_key", "cursor", "limit", "offset", "page", "token_body">>

KeyRank(k) == CHOOSE i \in DOMAIN KeyOrder : KeyOrder[i] = k

\* url.URL.Query(): raw query to url.Values
ParseQuery(q) == [k \in {q[i][1] : i \in DOMAIN q} |->
                    LET i == CHOOSE j \in DOMAIN q : q[j][1] = k IN q[i][2]]

RECURSIVE EncodeFrom(_, _)
EncodeFrom(values, r) ==
  IF r > Len(KeyOrder) THEN <<>>
  ELSE (IF KeyOrder[r] \in DOMAIN values
          THEN <<(<<KeyOrder[r], values[KeyOrder[r]]>>)>> ELSE <<>>)
       \o EncodeFrom(values, r + 1)

\* url.Values.Encode(): "key=value" pairs sorted by key
Encode(values) == EncodeFrom(values, 1)

\* textproto.CanonicalMIMEHeaderKey, as http.Header.Set applies it
CanonicalKey(k) ==
  CASE k = "accept" -> "Accept"
    [] k = "token_header" -> "Token_header"
    [] k = "x-page" -> "X-Page"
    [] OTHER -> k

\* the header map after Set(k, hs[k]) for every key of hs, on top of base
SetAll(base, hs) ==
  [c \in DOMAIN base \cup {CanonicalKey(k) : k \in DOMAIN hs} |->
     IF \E k \in DOMAIN hs : CanonicalKey(k) = c
       THEN hs[CHOOSE k \in DOMAIN hs : CanonicalKey(k) = c]
       ELSE base[c]]

NoParams == [k \in {} |-> ""]

\* ------------------------------------------------------------- paginator
\* The paginator that handleRequest drives: NewPaginator, NextFromCtx, Next
\* and PageNum. Its state is the page number, the current value of every
\* parameter and the URL of the next page.
NoPagination == [NextPageUrlSelector |-> "", Params |-> <<>>, StopOn |-> <<>>]

HasPagination(pg) == pg.NextPageUrlSelector # "" \/ Len(pg.Params) > 0

\* "body:<jq>" or "header:<name>"
SelectorOf(s) ==
  CASE s = "body:.nextToken" -> [from |-> "body", key |-> "nextToken"]
    [] s = "body:.next" -> [from |-> "body", key |-> "next"]
    [] s = "header:X-Next-Token" -> [from |-> "header", key |-> "X-Next-Token"]
    [] OTHER -> [from |-> "header", key |-> s]

\* a jq path on a body that is no mapping is an error
ExtractFails(sel, resp) == sel.from = "body" /\ resp.body.kind # "map"

Extract(sel, resp) ==
  IF sel.from = "body"
    THEN (IF sel.key \in DOMAIN resp.body.v THEN resp.body.v[sel.key] ELSE JNull)
    ELSE (IF sel.key \in DOMAIN resp.header THEN JStr(resp.header[sel.key]) ELSE JStr(""))

\* type-specific zero unless a default is given; empty for dynamic
ParamInit(p) == IF p.Type = "int" THEN JNum(p.Default) ELSE JStr("")

NewPaginator(pg) ==
  [pageNum |-> 0,
   values |-> [i \in DOMAIN pg.Params |-> ParamInit(pg.Params[i])],
   nextPageUrl |-> NoURL]

PageNum(st) == st.pageNum

\* the parameters placed in one location; a parameter without a value is
\* left out
ParamsAt(pg, st, loc) ==
  LET here == {i \in DOMAIN pg.Params :
                 pg.Params[i].Location = loc /\ Format(st.values[i]) # ""}
  IN [n \in {pg.Params[i].Name : i \in here} |->
        Format(st.values[CHOOSE i \in here : pg.Params[i].Name = n])]

NextFromCtx(pg, st) ==
  [QueryParams |-> ParamsAt(pg, st, "query"),
   BodyParams |-> ParamsAt(pg, st, "body"),
   Headers |-> ParamsAt(pg, st, "header"),
   NextPageUrl |-> st.nextPageUrl]

Compare(op, a, b) ==
  CASE op = "lt" -> a < b
    [] op = "lte" -> a <= b
    [] op = "eq" -> a = b
    [] op = "gt" -> a > b
    [] OTHER -> a >= b

\* jq stop expressions, by what they evaluate to
EvalFails(expr, body) ==
  CASE expr = ".nextToken == null" -> body.kind # "map"
    [] OTHER -> body.kind # "seq"

EvalBool(expr, body) ==
  CASE expr = ".nextToken == null" ->
         ("nextToken" \notin DOMAIN body.v) \/ body.v.nextToken.kind = "null"
    [] OTHER -> Len(body.v) = 0

\* int: current + increment; dynamic: the value extracted from the response
Advance(p, cur, resp) ==
  IF p.Type = "int" THEN JNum(cur.v + p.Increment)
  ELSE JStr(Format(Extract(SelectorOf(p.Source), resp)))

NextURL(pg, resp) ==
  IF pg.NextPageUrlSelector = "" THEN NoURL
  ELSE LET u == Extract(SelectorOf(pg.NextPageUrlSelector), resp)
       IN IF u.kind = "url" THEN u.v ELSE NoURL

\* the state after one more response: page number incremented, parameters
\* advanced
Advanced(pg, st, resp) ==
  [pageNum |-> st.pageNum + 1,
   values |-> [i \in DOMAIN pg.Params |-> Advance(pg.Params[i], st.values[i], resp)],
   nextPageUrl |-> NextURL(pg, resp)]

ParamValue(pg, st, name) ==
  st.values[CHOOSE i \in DOMAIN pg.Params : pg.Params[i].Name = name]

StopMatches(s, pg, st, resp) ==
  CASE s.Type = "responseBody" -> EvalBool(s.Expression, resp.body)
    [] s.Type = "requestParam" -> Compare(s.Compare, ParamValue(pg, st, s.Param).v, s.Value)
    [] OTHER -> st.pageNum >= s.Value

NextFails(pg, resp) ==
  \/ \E i \in DOMAIN pg.Params :
       pg.Params[i].Type = "dynamic" /\ ExtractFails(SelectorOf(pg.Params[i].Source), resp)
  \/ pg.NextPageUrlSelector # "" /\ ExtractFails(SelectorOf(pg.NextPageUrlSelector), resp)
  \/ \E i \in DOMAIN pg.StopOn :
       pg.StopOn[i].Type = "responseBody" /\ EvalFails(pg.StopOn[i].Expression, resp.body)

\* a request without pagination has one page; with a selector the loop ends
\* when no URL is extracted; any matching stop condition ends it
StopAfter(pg, st, resp) ==
  \/ ~HasPagination(pg)
  \/ pg.NextPageUrlSelector # "" /\ st.nextPageUrl = NoURL
  \/ \E i \in DOMAIN pg.StopOn : StopMatches(pg.StopOn[i], pg, st, resp)

\* Next(resp): the state is advanced, then the stop conditions are
\* evaluated on the advanced state
Next(pg, st, resp) ==
  IF NextFails(pg, resp)
    THEN [err |-> "paginator update error", state |-> st, stop |-> FALSE]
    ELSE LET st1 == Advanced(pg, st, resp)
         IN [err |-> "", state |-> st1, stop |-> StopAfter(pg, st1, resp)]

\* ------------------------------------------------------ manifest (Config)
NoMergeWithContext == [Name |-> "", Rule |-> ""]

NoRequest == [URL |-> "", Headers |-> NoParams, Body |-> NoParams,
              Pagination |-> NoPagination, Authentication |-> NoAuth]

\* the Step struct: one record shape for both step types
RequestStep(name, url, hdrs, pg, transformer, as, sub, mo, mp, mwc, noop) ==
  [Type |-> "request", Name |-> name, Path |-> "", As |-> as, Values |-> <<>>,
   Steps |-> sub,
   Request |-> [URL |-> url, Headers |-> hdrs, Body |-> NoParams, Pagination |-> pg,
                Authentication |-> NoAuth],
   ResultTransformer |-> transformer, MergeOn |-> mo, MergeWithParentOn |-> mp,
   MergeWithContext |-> mwc, NoopMerge |-> noop]

ForEachStep(name, path, values, as, sub, mo, noop) ==
  [Type |-> "forEach", Name |-> name, Path |-> path, As |-> as, Values |-> values,
   Steps |-> sub, Request |-> NoRequest, ResultTransformer |-> "", MergeOn |-> mo,
   MergeWithParentOn |-> "", MergeWithContext |-> NoMergeWithContext,
   NoopMerge |-> noop]

ListURL == "https://api.example.com/list"
DetailURL == "https://api.example.com/detail/{{ .item.value }}"
NextBase == "http://list.com/page"

IntParam(name, d) ==
  [Name |-> name, Location |-> "query", Type |-> "int", Default |-> d,
   Increment |-> 1, Source |-> ""]

DynamicParam(name, loc, src) ==
  [Name |-> name, Location |-> loc, Type |-> "dynamic", Default |-> 0,
   Increment |-> 0, Source |-> src]

StopRequestParam(p, cmp, v) ==
  [Type |-> "requestParam", Expression |-> "", Param |-> p, Compare |-> cmp, Value |-> v]

StopPageNum(v) ==
  [Type |-> "pageNum", Expression |-> "", Param |-> "", Compare |-> "", Value |-> v]

StopResponseBody(e) ==
  [Type |-> "responseBody", Expression |-> e, Param |-> "", Compare |-> "", Value |-> 0]

\* example_pagination_increment: offset in the query, stop on its value
PgOffset(d, v) ==
  [NextPageUrlSelector |-> "", Params |-> <<IntParam("offset", d)>>,
   StopOn |-> <<StopRequestParam("offset", "gte", v)>>]

\* test9_stop_on_iteration: a single pageNum stop
PgPageNum(n) ==
  [NextPageUrlSelector |-> "", Params |-> <<IntParam("page", 1)>>,
   StopOn |-> <<StopPageNum(n)>>]

\* two stop conditions: an empty page or the page count
PgEmptyOrPageNum(n) ==
  [NextPageUrlSelector |-> "", Params |-> <<IntParam("offset", 0)>>,
   StopOn |-> <<StopResponseBody("length == 0"), StopPageNum(n)>>]

\* test3_next_token.yaml
PgNextToken ==
  [NextPageUrlSelector |-> "",
   Params |-> <<DynamicParam("token_body", "query", "body:.nextToken"),
                DynamicParam("token_header", "header", "header:X-Next-Token")>>,
   StopOn |-> <<StopResponseBody(".nextToken == null")>>]

\* example_pagination_next
PgNextUrl == [NextPageUrlSelector |-> "body:.next", Params |-> <<>>, StopOn |-> <<>>]

\* ------------------------------------------------------------ HTTP server
\* the records of page k of the list endpoint
Rec(k, j) == JMap([value |-> JNum(10 * k + j)])

ListBody(k, s) == JSeq([j \in 1..s |-> Rec(k, j)])

HTTPResponse(b, h) == [body |-> b, header |-> h]

\* pages of s records up to page e - 1, empty pages from page e on
ListScript(s, e) ==
  [k \in 1..(MaxPages + 1) |-> HTTPResponse(ListBody(k, IF k < e THEN s ELSE 0), NoParams)]

Tokens == <<"abc123", "def456", "ghi789", "jkl012">>
HeaderTokens == <<"xyz789", "uvw000", "rst111", "opq222">>

\* test3_next_token.yaml httpResults: a chain of n responses, then "{}"
TokenScript(n) ==
  [k \in 1..(n + 1) |->
     IF k < n
       THEN HTTPResponse(JMap([nextToken |-> JStr(Tokens[k])]),
                         "X-Next-Token" :> HeaderTokens[k])
       ELSE IF k = n
         THEN HTTPResponse(JMap([nextToken |-> JNull]), "X-Next-Token" :> "done")
         ELSE HTTPResponse(JMap([f \in {} |-> JNull]), NoParams)]

\* the link to page p as the server writes it
NextLink(p, style) ==
  [base |-> NextBase, id |-> p,
   query |-> CASE style = "plain" -> <<>>
               [] style = "sorted" -> <<(<<"limit", "2">>), (<<"page", IntToStr(p)>>)>>
               [] OTHER -> <<(<<"page", IntToStr(p)>>), (<<"limit", "2">>)>>]

LinkStyles == {"plain", "sorted", "unsorted"}

\* n pages, each but the last linking to the next one
NextUrlScript(n, style) ==
  [k \in 1..n |->
     HTTPResponse(JMap([items |-> ListBody(k, 1),
                        next |-> IF k < n THEN JUrl(NextLink(k + 1, style)) ELSE JNull]),
                  NoParams)]

\* MockRoundTripper: no mock for the URL
NotFound == HTTPResponse(JMap([error |-> JStr("mock not found")]), NoParams)

DetailBase == "https://api.example.com/detail/"

\* the detail endpoint answers for the id in the URL
DetailResponse(u) == HTTPResponse(JMap([id |-> JNum(u.id), free |-> JNum(100 + u.id)]), NoParams)

\* the k-th request of a step, sent to u
Server(script, u, k) ==
  IF u.base = DetailBase THEN DetailResponse(u)
  ELSE IF k \in DOMAIN script THEN script[k] ELSE NotFound

\* ------------------------------------------------------- request building
ListURLPaged == "https://api.example.com/list?page=1&limit=2"

\* contextMapToTemplate: the fields of a mapping root, then every other
\* context under its name
contextMapToTemplate(ctxs, cmap) ==
  LET root == ctxs[cmap["root"]].Data
      rootKeys == IF root.kind = "map" THEN DOMAIN root.v ELSE {}
      others == (DOMAIN cmap) \ {"root"}
  IN [k \in rootKeys \cup others |->
        IF k \in others THEN ctxs[cmap[k]].Data ELSE root.v[k]]

\* text/template execution of the URL templates of the model, then url.Parse
Render(tmpl, templateCtx) ==
  CASE tmpl = DetailURL ->
         [base |-> DetailBase,
          id |-> IF "item" \in DOMAIN templateCtx /\ templateCtx["item"].kind = "map"
                    /\ "value" \in DOMAIN templateCtx["item"].v
                   THEN templateCtx["item"].v["value"].v ELSE 0,
          query |-> <<>>]
    [] tmpl = ListURLPaged ->
         [base |-> ListURL, id |-> 0, query |-> <<(<<"page", "1">>), (<<"limit", "2">>)>>]
    [] OTHER -> [base |-> tmpl, id |-> 0, query |-> <<>>]

getContentType(headers) ==
  IF "Content-Type" \in DOMAIN headers THEN headers["Content-Type"]
  ELSE IF "content-type" \in DOMAIN headers THEN headers["content-type"]
  ELSE ""

\* prepareHTTPRequest: query := urlObj.Query(); query.Set(k, v) for every
\* pagination query parameter
QueryWithoutParams(urlObj, queryParams) == ParseQuery(urlObj.query)

QueryWithParams(urlObj, queryParams) == Overlay(ParseQuery(urlObj.query), queryParams)

\* prepareHTTPRequest, "Determine base URL": the next page URL when there
\* is one, else the expanded template
BaseURLFromTemplate(ctx, templateCtx) == Render(ctx.urlTemplate, templateCtx)

BaseURL(ctx, templateCtx) ==
  IF ctx.nextPageURL # NoURL THEN ctx.nextPageURL ELSE Render(ctx.urlTemplate, templateCtx)

\* prepareHTTPRequest. The headers are the global ones, then the request's;
\* the Headers of the pagination parameters are no field of
\* httpRequestContext and are not applied.
prepareHTTPRequest(ctx, templateCtx, globalHeaders) ==
  LET urlObj == BaseURL(ctx, templateCtx)
      query == QueryWithParams(urlObj, ctx.queryParams)
      mergedBody == Overlay(ctx.configuredBody, ctx.bodyParams)
      hasBody == DOMAIN mergedBody # {}
      hdrs == SetAll(SetAll(NoParams, globalHeaders), ctx.headers)
  IN IF hasBody /\ ctx.contentType \notin {"application/json",
                                           "application/x-www-form-urlencoded"}
       THEN [err |-> "unsupported content type", req |-> [url |-> NoURL, header |-> NoParams, body |-> NoParams]]
       ELSE [err |-> "",
             req |-> [url |-> [urlObj EXCEPT !.query = Encode(query)],
                      header |-> IF hasBody /\ ctx.contentType # ""
                                   THEN SetAll(hdrs, "Content-Type" :> ctx.contentType)
                                   ELSE hdrs,
                      body |-> mergedBody]]

\* transformResult, code.Run(raw, templateCtx): jq reports an error for a
\* field of a sequence and for the iteration of what is no sequence
TransformErrs(raw, transformer) ==
  \/ transformer \in {".items", ".items[]"} /\ raw.kind # "map"
  \/ /\ transformer = ".items[]"
     /\ raw.kind = "map"
     /\ ("items" \notin DOMAIN raw.v \/ raw.v["items"].kind # "seq")

\* the values the iterator yields when jq reports no error
TransformValues(raw, transformer) ==
  CASE transformer = ".items" ->
         <<IF "items" \in DOMAIN raw.v THEN raw.v["items"] ELSE JNull>>
    [] transformer = ".items[]" -> raw.v["items"].v
    [] OTHER -> <<raw>>

\* transformResult returns an error: a jq error, or count > 1
TransformFails(raw, transformer) ==
  \/ TransformErrs(raw, transformer)
  \/ Len(TransformValues(raw, transformer)) > 1

\* transformResult returns singleResult: the one value, or nil when the
\* iterator has yielded none
transformResult(raw, transformer) ==
  LET values == TransformValues(raw, transformer)
  IN IF values = <<>> THEN JNull ELSE values[1]

\* ------------------------------------------------------- authenticators
\* a nil *http.Cookie
NoCookie == [Name |-> "", Value |-> ""]

\* NewAuthenticator for the types noop, cookie, jwt and custom
NewAuthenticator(config) ==
  [Type |-> config.Type,
   extractFrom |-> IF config.Type = "jwt" /\ config.ExtractFrom = "" THEN "body"
                   ELSE config.ExtractFrom,
   extractSelector |-> config.ExtractSelector,
   injectInto |-> config.InjectInto,
   injectKey |-> config.InjectKey,
   maxAge |-> config.MaxAgeSeconds,
   onePerRun |-> config.OnePerRun,
   token |-> "",
   cookie |-> NoCookie,
   acquiredAt |-> 0,
   authenticated |-> FALSE]

\* what the login endpoint answers to the k-th login request of the crawl:
\* the credential is in a cookie, in a header and in the body
LoginOK(k) ==
  [err |-> "", status |-> 200,
   cookies |-> "session" :> ("c" \o IntToStr(k)),
   header |-> "X-Auth-Token" :> ("h" \o IntToStr(k)),
   body |-> JMap("token" :> JStr("b" \o IntToStr(k)))]

LoginResponse(mode, k) ==
  CASE mode = "ok" -> LoginOK(k)
    [] mode = "denied" -> [LoginOK(k) EXCEPT !.status = 401]
    [] mode = "deniedLater" -> IF k = 1 THEN LoginOK(k) ELSE [LoginOK(k) EXCEPT !.status = 401]
    [] mode = "unreachable" -> [LoginOK(k) EXCEPT !.err = "connection refused"]
    [] mode = "empty" -> [err |-> "", status |-> 200, cookies |-> NoParams,
                          header |-> NoParams, body |-> JMap(NoParams)]
    [] mode = "blank" -> [err |-> "", status |-> 200, cookies |-> "session" :> "",
                          header |-> "X-Auth-Token" :> "",
                          body |-> JMap("token" :> JStr(""))]

\* PrepareRequest: "Check if we need to authenticate"; time.Since(acquiredAt)
\* is now - acquiredAt, in seconds
needsAuth(a, now) ==
  CASE a.Type = "cookie" ->
         IF ~a.authenticated \/ (a.cookie = NoCookie /\ ~a.onePerRun) THEN TRUE
         ELSE a.maxAge > 0 /\ now - a.acquiredAt > a.maxAge
    [] a.Type = "jwt" ->
         IF ~a.authenticated \/ (a.token = "" /\ ~a.onePerRun) THEN TRUE
         ELSE a.maxAge > 0 /\ now - a.acquiredAt > a.maxAge
    [] a.Type = "custom" ->
         IF ~a.authenticated THEN TRUE
         ELSE ~a.onePerRun /\ a.maxAge > 0 /\ now - a.acquiredAt > a.maxAge
    [] OTHER -> FALSE

\* JWTAuthenticator.extractToken, and the header and body cases of
\* CustomAuthenticator.extractCredential: the token, or an error
extractToken(a, resp) ==
  CASE a.extractFrom = "header" ->
         IF /\ CanonicalKey(a.extractSelector) \in DOMAIN resp.header
            /\ resp.header[CanonicalKey(a.extractSelector)] # ""
           THEN [token |-> resp.header[CanonicalKey(a.extractSelector)], err |-> ""]
           ELSE [token |-> "", err |-> "header not found in login response"]
    [] a.extractFrom = "body" ->
         IF a.extractSelector = ".token" /\ "token" \in DOMAIN resp.body.v
              /\ resp.body.v["token"].kind = "str"
           THEN [token |-> resp.body.v["token"].v, err |-> ""]
           ELSE [token |-> "", err |-> "token extracted is not a string"]
    [] OTHER -> [token |-> "", err |-> "unsupported extractFrom"]

\* CustomAuthenticator.extractCredential
extractCredential(a, resp) ==
  IF a.extractFrom = "cookie"
    THEN IF a.extractSelector \in DOMAIN resp.cookies
           THEN LET c == [Name |-> a.extractSelector, Value |-> resp.cookies[a.extractSelector]]
                IN [a |-> [a EXCEPT !.cookie = c,
                                    !.token = IF a.injectInto # "cookie" THEN c.Value ELSE @],
                    err |-> ""]
           ELSE [a |-> a, err |-> "cookie not found in login response"]
    ELSE LET t == extractToken(a, resp)
         IN IF t.err # "" THEN [a |-> a, err |-> t.err]
            ELSE [a |-> [a EXCEPT !.token = t.token], err |-> ""]

\* performLogin of the three authenticators, given the login response
performLogin(a, resp, now) ==
  IF resp.err # "" THEN [a |-> a, err |-> "login request failed"]
  ELSE IF resp.status < 200 \/ resp.status >= 300
    THEN [a |-> a, err |-> "login request failed with status"]
  ELSE CASE a.Type = "cookie" ->
              IF a.extractSelector \in DOMAIN resp.cookies
                THEN [a |-> [a EXCEPT !.cookie = [Name |-> a.extractSelector,
                                                  Value |-> resp.cookies[a.extractSelector]],
                                      !.acquiredAt = now],
                      err |-> ""]
                ELSE [a |-> a, err |-> "cookie not found in login response"]
         [] a.Type = "jwt" ->
              LET t == extractToken(a, resp)
              IN IF t.err # "" THEN [a |-> a, err |-> t.err]
                 ELSE [a |-> [a EXCEPT !.token = t.token, !.acquiredAt = now], err |-> ""]
         [] a.Type = "custom" ->
              LET c == extractCredential(a, resp)
              IN IF c.err # "" THEN c
                 ELSE [a |-> [c.a EXCEPT !.acquiredAt = now], err |-> ""]

\* req.AddCookie(c)
AddCookie(req, c) ==
  LET s == c.Name \o "=" \o c.Value
  IN [req EXCEPT !.header = SetAll(@, "Cookie" :> (IF "Cookie" \in DOMAIN @
                                                      THEN @["Cookie"] \o "; " \o s
                                                      ELSE s))]

\* PrepareRequest: "Inject cookie", "Inject token as Bearer", and the switch
\* on injectInto of the custom authenticator
Inject(a, req) ==
  LET bearer == [req EXCEPT !.header = SetAll(@, "Authorization" :> ("Bearer " \o a.token))]
      same == [req |-> req, err |-> ""]
  IN CASE a.Type = "cookie" ->
            IF a.cookie # NoCookie THEN [req |-> AddCookie(req, a.cookie), err |-> ""] ELSE same
       [] a.Type = "jwt" ->
            IF a.token # "" THEN [req |-> bearer, err |-> ""] ELSE same
       [] a.Type = "custom" /\ a.injectInto = "cookie" ->
            IF a.cookie # NoCookie THEN [req |-> AddCookie(req, a.cookie), err |-> ""] ELSE same
       [] a.Type = "custom" /\ a.injectInto = "header" ->
            IF a.token # ""
              THEN [req |-> [req EXCEPT !.header = SetAll(@, a.injectKey :> a.token)],
                    err |-> ""]
              ELSE same
       [] a.Type = "custom" /\ a.injectInto = "bearer" ->
            IF a.token # "" THEN [req |-> bearer, err |-> ""] ELSE same
       [] a.Type = "custom" /\ a.injectInto = "query" ->
            IF a.token # ""
              THEN [req |-> [req EXCEPT !.url.query =
                                Encode(Overlay(ParseQuery(@), a.injectKey :> a.token))],
                    err |-> ""]
              ELSE same
       [] a.Type = "custom" /\ a.injectInto = "body" ->
            [req |-> req, err |-> "injectInto=body not yet implemented"]
       [] a.Type = "custom" -> [req |-> req, err |-> "unsupported injectInto"]
       [] OTHER -> same

\* PrepareRequest of the authenticator a on req at time now; resp is what the
\* login endpoint answers if a login request is made
PrepareRequest(a, req, resp, now) ==
  LET login == needsAuth(a, now)
      l == IF login THEN performLogin(a, resp, now) ELSE [a |-> a, err |-> ""]
  IN IF l.err # ""
       THEN [a |-> l.a, req |-> req, err |-> "authentication failed", login |-> login,
             loginErr |-> l.err]
       ELSE LET b == IF login THEN [l.a EXCEPT !.authenticated = TRUE] ELSE a
                i == Inject(b, req)
            IN [a |-> b, req |-> i.req, err |-> i.err, login |-> login, loginErr |-> ""]

\* ------------------------------------------------------- contexts, frames
NoAlias == [ctx |-> 0, path |-> "", idx |-> 0]

\* Context; alias records that Data is the very object found at element idx
\* of what path selects in the Data of context ctx (a forEach item)
NewContext(key, parent, depth, data, alias) ==
  [key |-> key, ParentContext |-> parent, depth |-> depth, Data |-> data, alias |-> alias]

\* the sequence a forEach path selects in data, and data with it replaced
PathGet(data, path) == IF path = "." THEN data ELSE data.v["items"]

PathSet(data, path, new) ==
  IF path = "." THEN new ELSE JMap(Overlay(data.v, [items |-> new]))

PathFits(data, path, idx) ==
  /\ path = "." \/ (data.kind = "map" /\ "items" \in DOMAIN data.v)
  /\ PathGet(data, path).kind = "seq"
  /\ idx \in DOMAIN PathGet(data, path).v

\* a map object written in place (data[k] = v) is seen through every
\* reference to it: the sequence an item was taken from holds the same object
RECURSIVE WriteInPlace(_, _, _)
WriteInPlace(ctxs, c, new) ==
  LET a == ctxs[c].alias
      ctxs1 == [ctxs EXCEPT ![c].Data = new]
  IN IF a.ctx = 0 THEN ctxs1
     ELSE IF a.idx = 0 THEN WriteInPlace(ctxs1, a.ctx, new)
     ELSE IF PathFits(ctxs1[a.ctx].Data, a.path, a.idx)
       THEN LET old == PathGet(ctxs1[a.ctx].Data, a.path)
                seq1 == JSeq([old.v EXCEPT ![a.idx] = new])
            IN WriteInPlace(ctxs1, a.ctx, PathSet(ctxs1[a.ctx].Data, a.path, seq1))
       ELSE ctxs1

\* childMapWith: a copy of the map with key bound to a new context below
\* the current one
childMapWithoutBase(base, key, id) == [k \in {key} |-> id]

childMapWith(base, key, id) == [k \in (DOMAIN base) \cup {key} |-> IF k = key THEN id ELSE base[k]]

NoRequestSent == [url |-> NoURL, header |-> NoParams, body |-> NoParams]

NoPageParams == [QueryParams |-> NoParams, BodyParams |-> NoParams,
                 Headers |-> NoParams, NextPageUrl |-> NoURL]

\* newProfilerEvent: uuid.New() is the position of the event in the history
Fresh(evs, type) == Append(evs, [Type |-> type, ID |-> Len(evs) + 1])

\* an event built with the ID of an earlier one
Reuse(evs, type, id) == Append(evs, [Type |-> type, ID |-> id])

\* the events of PrepareRequest and performLogin: AuthProfiler.emit and
\* AuthProfiler.emitEnd both draw a new uuid
AuthEvents(evs, a, login) ==
  IF a.Type = "" THEN evs
  ELSE LET started == Fresh(evs, "AUTH_START")
           loggedIn == IF login
                         THEN Fresh(Fresh(started, "AUTH_LOGIN_START"), "AUTH_LOGIN_END")
                         ELSE started
       IN Fresh(loggedIn, "AUTH_END")

\* newStepExecution, with the locals of handleRequest and handleForEach
newStepExecution(st, currentContextKey, contextMap) ==
  [step |-> st, currentContextKey |-> currentContextKey, contextMap |-> contextMap,
   currentContext |-> contextMap[currentContextKey], pc |-> "start",
   templateCtx |-> NoParams,
   paginator |-> NewPaginator(NoPagination), next |-> NoPageParams, stop |-> FALSE,
   pageNum |-> 0, requests |-> 0, req |-> NoRequestSent,
   resp |-> HTTPResponse(JNull, NoParams),
   thisContextKey |-> "", childContextMap |-> contextMap, nestedIdx |-> 0,
   results |-> <<>>, i |-> 0, executionResults |-> <<>>,
   array_data |-> <<>>, drained |-> 0,
   authenticator |-> 0, authErr |-> "",
   decoded |-> 0, merged |-> 0, stepID |-> 0, pageID |-> 0]

\* performMerge on the context store: the store after the merge, an error,
\* or a panic of the Go runtime (nil parent context, failed type assertion)
MergeOutcome(err, panic, ctxs) == [err |-> err, panic |-> panic, ctxs |-> ctxs]

RuleMergeDropped(ctxs, target, rule, res, what) == MergeOutcome("", FALSE, ctxs)

RuleMerge(ctxs, target, rule, res, what) ==
  LET m == applyMergeRule(ctxs[target].Data, rule, res)
  IN IF m.err # "" THEN MergeOutcome(what, FALSE, ctxs)
     ELSE MergeOutcome("", FALSE, [ctxs EXCEPT ![target].Data = m.value])

performMerge(ctxs, op) ==
  LET cur == op.currentContext
      data == ctxs[cur].Data
  IN CASE op.step.NoopMerge -> MergeOutcome("", FALSE, ctxs)
       [] ~op.step.NoopMerge /\ op.step.MergeOn # "" ->
            RuleMerge(ctxs, cur, op.step.MergeOn, op.result, "mergeOn failed")
       [] ~op.step.NoopMerge /\ op.step.MergeOn = "" /\ op.step.MergeWithParentOn # "" ->
            IF ctxs[cur].ParentContext \notin DOMAIN op.contextMap
              THEN MergeOutcome("", TRUE, ctxs)
              ELSE RuleMerge(ctxs, op.contextMap[ctxs[cur].ParentContext],
                             op.step.MergeWithParentOn, op.result,
                             "mergeWithParentOn failed")
       [] ~op.step.NoopMerge /\ op.step.MergeOn = "" /\ op.step.MergeWithParentOn = ""
            /\ op.step.MergeWithContext # NoMergeWithContext ->
            IF op.step.MergeWithContext.Name \notin DOMAIN op.contextMap
              THEN MergeOutcome("context not found", FALSE, ctxs)
              ELSE RuleMerge(ctxs, op.contextMap[op.step.MergeWithContext.Name],
                             op.step.MergeWithContext.Rule, op.result,
                             "mergeWithContext failed")
       [] OTHER ->
            IF DefaultMergePanics(data, op.result) THEN MergeOutcome("", TRUE, ctxs)
            ELSE IF data.kind = "map"
              THEN MergeOutcome("", FALSE, WriteInPlace(ctxs, cur, DefaultMerge(data, op.result)))
              ELSE MergeOutcome("", FALSE, [ctxs EXCEPT ![cur].Data = DefaultMerge(data, op.result)])

\* ------------------------------------- SpecPar: the shared authenticator
\* the authentication sections of the parallel crawl
ParAuthConfigs ==
  {NoAuth,
   AuthConfig("cookie", "", "session", "", "", 0, FALSE),
   AuthConfig("jwt", "body", ".token", "", "", 0, TRUE),
   AuthConfig("custom", "header", "X-Auth-Token", "query", "api_key", 0, FALSE)}

\* PrepareRequest: a.mu.Lock()
AuthMutexIgnored == TRUE

AuthMutexFree == authMu = 0

\* worker: PrepareRequest takes a.mu and checks whether to authenticate; the
\* login sub-request is sent with the mutex held
WorkerAuthLock(i) ==
  /\ ~crashed
  /\ pc[i] = "auth"
  /\ AuthMutexFree
  /\ authMu' = i
  /\ IF needsAuth(parAuthenticator, 0)
       THEN /\ pc' = [pc EXCEPT ![i] = "login"]
            /\ parLogins' = parLogins + 1
       ELSE /\ pc' = [pc EXCEPT ![i] = "inject"]
            /\ UNCHANGED parLogins
  /\ UNCHANGED <<runVars, parLimiter, parCfg, parHist, parAuthenticator, prepared, rootData, items,
                 childData, mainPc, runErr, seqIdx, semaphore, semCap, resultsChan, closed, wg,
                 results, executionResults, mergeMutex, updated, templateCache, crashed>>

\* worker: the login response arrives: performLogin, a.authenticated = true,
\* the credential is injected, a.mu.Unlock() (deferred); prepareHTTPRequest
\* drops the error of a failed login
WorkerLogin(i) ==
  /\ ~crashed
  /\ pc[i] = "login"
  /\ LET l == performLogin(parAuthenticator, LoginResponse("ok", parLogins), 0)
         b == [l.a EXCEPT !.authenticated = TRUE]
     IN IF l.err # ""
          THEN /\ parAuthenticator' = l.a
               /\ prepared' = [j \in DOMAIN prepared \cup {i} |->
                                 IF j = i THEN NoRequestSent ELSE prepared[j]]
          ELSE /\ parAuthenticator' = b
               /\ prepared' = [j \in DOMAIN prepared \cup {i} |->
                                 IF j = i THEN Inject(b, NoRequestSent).req ELSE prepared[j]]
  /\ authMu' = 0
  /\ pc' = [pc EXCEPT ![i] = "http"]
  /\ UNCHANGED <<runVars, parLimiter, parCfg, parHist, parLogins, rootData, items, childData, mainPc,
                 runErr, seqIdx, semaphore, semCap, resultsChan, closed, wg, results,
                 executionResults, mergeMutex, updated, templateCache, crashed>>

\* worker: the cached credential is injected, a.mu.Unlock() (deferred)
WorkerInject(i) ==
  /\ ~crashed
  /\ pc[i] = "inject"
  /\ prepared' = [j \in DOMAIN prepared \cup {i} |->
                    IF j = i THEN Inject(parAuthenticator, NoRequestSent).req ELSE prepared[j]]
  /\ authMu' = 0
  /\ pc' = [pc EXCEPT ![i] = "http"]
  /\ UNCHANGED <<runVars, parLimiter, parCfg, parHist, parAuthenticator, parLogins, rootData, items,
                 childData, mainPc, runErr, seqIdx, semaphore, semCap, resultsChan, closed, wg,
                 results, executionResults, mergeMutex, updated, templateCache, crashed>>

InitPar ==
  /\ step \in {st \in ForEachSteps : ValidForEach(st)}
  /\ nested \in {ns \in NestedSteps :
                   ns.Type = "forEach" => step.Parallel /\ step.RateLimit = NoRateLimit}
  /\ \E n \in 0..MaxItems :
       /\ rootData = JMap([ids |-> JSeq([i \in 1..n |-> ItemValue(i)]), merged |-> JSeq(<<>>)])
       /\ failItem \in IF nested.Type = "forEach" THEN {0} ELSE 0..n
  /\ items = <<>>
  /\ childData = <<>>
  /\ mainPc = "extract"
  /\ runErr = ""
  /\ seqIdx = 0
  /\ pc = <<>>
  /\ semaphore = 0
  /\ semCap = 0
  /\ resultsChan = <<>>
  /\ closed = FALSE
  /\ wg = 0
  /\ results = <<>>
  /\ executionResults = <<>>
  /\ mergeMutex = 0
  /\ updated = <<>>
  /\ templateCache = {}
  /\ crashed = FALSE
  /\ arrival = <<>>
  /\ ownMergeApplied = FALSE
  /\ parAuthenticator \in {NewAuthenticator(a) :
                             a \in IF step.Parallel /\ step.RateLimit = NoRateLimit
                                        /\ nested.Type = "request"
                                     THEN ParAuthConfigs ELSE {NoAuth}}
  /\ authMu = 0
  /\ parLogins = 0
  /\ prepared = <<>>
  /\ rateLimiter = NoLimiter
  /\ took = {}
  /\ RunIdle

\* SpecRun leaves the parallel forEach of SpecPar unused
ParIdle ==
  /\ step = [Parallel |-> FALSE, MaxConcurrency |-> 0, NoopMerge |-> FALSE, MergeOn |-> "",
             RateLimit |-> NoRateLimit]
  /\ nested = [Type |-> "request", MergeWithParentOn |-> "", NoopMerge |-> FALSE]
  /\ rootData = JNull
  /\ failItem = 0
  /\ items = <<>>
  /\ childData = <<>>
  /\ mainPc = "idle"
  /\ runErr = ""
  /\ seqIdx = 0
  /\ pc = <<>>
  /\ semaphore = 0
  /\ semCap = 0
  /\ resultsChan = <<>>
  /\ closed = FALSE
  /\ wg = 0
  /\ results = <<>>
  /\ executionResults = <<>>
  /\ mergeMutex = 0
  /\ updated = <<>>
  /\ templateCache = {}
  /\ crashed = FALSE
  /\ arrival = <<>>
  /\ ownMergeApplied = FALSE
  /\ parAuthenticator = NewAuthenticator(NoAuth)
  /\ authMu = 0
  /\ parLogins = 0
  /\ prepared = <<>>
  /\ rateLimiter = NoLimiter
  /\ took = {}

NextPar ==
  \/ ForEachExtract
  \/ \E i \in Workers : WorkerAcquire(i)
  \/ \E i \in Workers : WorkerWait(i)
  \/ Refill
  \/ \E i \in Workers : WorkerStart(i)
  \/ \E i \in Workers : WorkerCompile(i)
  \/ \E i \in Workers : WorkerPatch(i)
  \/ \E i \in Workers : WorkerAuthLock(i)
  \/ \E i \in Workers : WorkerLogin(i)
  \/ \E i \in Workers : WorkerInject(i)
  \/ \E i \in Workers : WorkerHTTP(i)
  \/ \E i \in Workers : WorkerLock(i)
  \/ \E i \in Workers : WorkerApply(i)
  \/ \E i \in Workers : WorkerWrite(i)
  \/ \E i \in Workers : WorkerSend(i)
  \/ CloseResults
  \/ Collect
  \/ CollectDone
  \/ SerialIteration
  \/ SerialDone
  \/ ForEachMerge

SpecPar == InitPar /\ [][NextPar]_vars

\* ------------------------------------------------------------ SpecRun: Init
HeaderSets == {NoParams, "accept" :> "application/json"}

ListPaginations ==
  {NoPagination}
    \cup {PgOffset(d, v) : d \in 0..1, v \in 0..MaxPages}
    \cup {PgPageNum(n) : n \in 0..MaxPages}
    \cup {PgEmptyOrPageNum(n) : n \in 1..MaxPages}

ListScripts == {ListScript(s, e) : s \in 1..MaxPageLen, e \in 1..(MaxPages + 2)}

TopRequest(url, hdrs, pg) ==
  RequestStep("list", url, hdrs, pg, "", "", <<>>, "", "", NoMergeWithContext, FALSE)

\* a manifest's steps together with what the server answers to them
Scenarios ==
  {[Steps |-> <<TopRequest(ListURL, h, pg)>>, httpResults |-> sc] :
      h \in HeaderSets, pg \in ListPaginations, sc \in ListScripts}
    \cup
  {[Steps |-> <<TopRequest(ListURL, h, PgNextToken)>>, httpResults |-> sc] :
      h \in HeaderSets, sc \in {TokenScript(n) : n \in 1..MaxPages} \cup {ListScript(1, 2)}}
    \cup
  {[Steps |-> <<TopRequest(u, NoParams, PgNextUrl)>>, httpResults |-> NextUrlScript(n, style)] :
      u \in {ListURL, ListURLPaged}, n \in 1..MaxPages, style \in LinkStyles}

\* one page {"items": [s records], "next": null}
ItemsScript(s) == <<HTTPResponse(JMap([items |-> ListBody(1, s), next |-> JNull]), NoParams)>>

\* a request step with a resultTransformer
TransformScenarios ==
  {[Steps |-> <<RequestStep("list", ListURL, NoParams, NoPagination, t, "", <<>>,
                            mo, "", NoMergeWithContext, FALSE)>>,
    httpResults |-> sc] :
      t \in {".items", ".items[]"}, mo \in {"", ".results = $res"},
      sc \in {ItemsScript(s) : s \in 0..MaxPageLen} \cup {ListScript(1, 3)}}

\* the request nested in an iteration or in a page: one detail per item
DetailStep(m) ==
  RequestStep("detail", DetailURL, NoParams, NoPagination, "", "", <<>>,
              m.MergeOn, m.MergeWithParentOn, m.MergeWithContext, FALSE)

NoDirective ==
  [MergeOn |-> "", MergeWithParentOn |-> "", MergeWithContext |-> NoMergeWithContext]

NestedMerges ==
  {NoDirective,
   [MergeOn |-> ".detail = $res", MergeWithParentOn |-> "",
    MergeWithContext |-> NoMergeWithContext],
   [MergeOn |-> "", MergeWithParentOn |-> ". += [$res]",
    MergeWithContext |-> NoMergeWithContext],
   [MergeOn |-> "", MergeWithParentOn |-> "",
    MergeWithContext |-> [Name |-> "root", Rule |-> ". += [$res]"]]}

\* example_foreach_value: a forEach over literal values
ValuesForEach(n, m, noop) ==
  ForEachStep("each", ".", [i \in 1..n |-> i], "item", <<DetailStep(m)>>, "", noop)

\* a forEach over the records of a page
ItemsForEach(m, noop) ==
  ForEachStep("each", ".", <<>>, "item", <<DetailStep(m)>>, "", noop)

NestedScenarios ==
  {[Steps |-> <<ValuesForEach(n, m, noop)>>, httpResults |-> ListScript(1, 2)] :
      n \in 0..MaxValues, m \in NestedMerges, noop \in BOOLEAN}
    \cup
  {[Steps |-> <<[ValuesForEach(1, m, FALSE) EXCEPT !.Type = "foreach"]>>,
    httpResults |-> ListScript(1, 2)] : m \in NestedMerges}
    \cup
  {[Steps |-> <<RequestStep("list", ListURL, NoParams, pg, "", as,
                            <<ItemsForEach(m, noop)>>, "", "", NoMergeWithContext, FALSE)>>,
    httpResults |-> ListScript(s, 3)] :
      pg \in {NoPagination, PgPageNum(2)}, as \in {"", "page"}, m \in NestedMerges,
      noop \in BOOLEAN, s \in 1..MaxPageLen}
    \cup
  {[Steps |-> <<RequestStep("list", ListURL, NoParams, NoPagination, "", "",
                            <<DetailStep(m)>>, "", "", NoMergeWithContext, FALSE)>>,
    httpResults |-> ListScript(s, 3)] : m \in NestedMerges, s \in 1..MaxPageLen}
    \cup
  {[Steps |-> <<TopRequest(ListURL, NoParams, PgPageNum(2)),
                ValuesForEach(MaxValues, m, FALSE)>>,
    httpResults |-> ListScript(s, 3)] : m \in NestedMerges, s \in 1..MaxPageLen}
    \cup
  {[Steps |-> <<RequestStep("list", ListURL, NoParams, NoPagination, "", "", <<>>,
                            "", m.MergeWithParentOn, m.MergeWithContext, FALSE)>>,
    httpResults |-> ListScript(1, 3)] :
      m \in (NestedMerges \ {NoDirective})
              \cup {[MergeOn |-> "", MergeWithParentOn |-> "",
                     MergeWithContext |-> [Name |-> "missing", Rule |-> ". += [$res]"]]}}
    \cup
  {[Steps |-> <<ValuesForEach(MaxValues, m, noop),
                TopRequest(ListURL, NoParams, PgPageNum(2))>>,
    httpResults |-> ListScript(s, 3)] : m \in NestedMerges, noop \in BOOLEAN,
                                        s \in 1..MaxPageLen}

\* example2.yaml, three levels: a forEach, below it a forEach or a request
\* with steps, below that a request that merges into the context of the
\* outer forEach by name
DeepScenarios ==
  LET into(name) == [MergeOn |-> "", MergeWithParentOn |-> "",
                     MergeWithContext |-> [Name |-> name, Rule |-> DetailsRule]]
  IN {[Steps |-> <<ForEachStep("subs", ".", [i \in 1..n |-> i], "sub",
                     <<ForEachStep("locs", ".", [i \in 1..k |-> i], "item",
                                   <<DetailStep(into("sub"))>>, "", TRUE)>>, "", FALSE)>>,
       httpResults |-> ItemsScript(1)] : n \in 1..MaxValues, k \in 0..MaxValues}
       \cup
     {[Steps |-> <<ForEachStep("each", ".", [i \in 1..n |-> i], "item",
                     <<RequestStep("list", ListURL, NoParams, NoPagination, "", as,
                                   <<DetailStep(into("item"))>>, "", "",
                                   NoMergeWithContext, noop)>>, "", FALSE)>>,
       httpResults |-> ItemsScript(1)] :
         n \in 1..MaxValues, as \in {"", "page"}, noop \in BOOLEAN}

\* a forEach over what a jq path selects in a page, with the default patch or
\* with a mergeOn rule of zero, one or two values
PatchScenarios ==
  {[Steps |-> <<RequestStep("list", ListURL, NoParams, NoPagination, "", "",
                            <<ForEachStep("each", p, <<>>, "item", <<>>, mo, FALSE)>>,
                            "", "", NoMergeWithContext, FALSE)>>,
    httpResults |-> ItemsScript(s)] :
      p \in {".items", ".items, .next"}, mo \in {"", ".results = $res", "empty", "., ."},
      s \in 1..MaxPageLen}
    \cup
  {[Steps |-> <<RequestStep("list", ListURL, NoParams, NoPagination, "", "",
                            <<ForEachStep("each", p, <<>>, "item", <<>>, "", FALSE)>>,
                            "", "", NoMergeWithContext, FALSE)>>,
    httpResults |-> ItemsScript(s)] :
      p \in {".", ".items", ".items[]"}, s \in 0..MaxPageLen}

\* validateConfig: stream requires a sequence root
Roots ==
  {[RootContext |-> JSeq(<<>>), Stream |-> FALSE],
   [RootContext |-> JSeq(<<>>), Stream |-> TRUE],
   [RootContext |-> JMap([f \in {} |-> JNull]), Stream |-> FALSE]}

\* the authentication sections of the model: the credential is the cookie
\* "session", the header X-Auth-Token or the field token of the body
AuthConfigs ==
  LET selector == [cookie |-> "session", header |-> "X-Auth-Token", body |-> ".token"]
      key == [cookie |-> "", header |-> "X-Api-Key", bearer |-> "", query |-> "api_key"]
  IN UNION {
       {AuthConfig("cookie", "", "session", "", "", m, o)}
         \cup {AuthConfig("jwt", f, selector[f], "", "", m, o) : f \in {"header", "body"}}
         \cup {AuthConfig("custom", f, selector[f], i, key[i], m, o) :
                  f \in {"cookie", "header", "body"},
                  i \in {"cookie", "header", "bearer", "query"}} :
       m \in {0, 1}, o \in BOOLEAN}

LoginModes == {"ok", "denied", "deniedLater", "unreachable", "empty", "blank"}

\* manifests with an authentication section: global (own = FALSE), or of the
\* request step itself, a paginated request or a request under a forEach
AuthScenarios ==
  LET paged(a) == [TopRequest(ListURL, NoParams, PgPageNum(2)) EXCEPT
                     !.Request.Authentication = a]
      each(a) == [ValuesForEach(MaxValues, NoDirective, FALSE) EXCEPT
                    !.Steps[1].Request.Authentication = a]
  IN {[Steps |-> <<IF nestedReq THEN each(IF own THEN a ELSE NoAuth)
                   ELSE paged(IF own THEN a ELSE NoAuth)>>,
       Authentication |-> IF own THEN NoAuth ELSE a,
       httpResults |-> ListScript(1, 3)] :
        a \in AuthConfigs, own \in BOOLEAN, nestedReq \in BOOLEAN}

InitRun ==
  /\ \/ /\ \E sc \in Scenarios \cup TransformScenarios \cup NestedScenarios \cup PatchScenarios,
               r \in Roots,
               gh \in {NoParams, "Accept" :> "text/plain"} :
               /\ Config = [RootContext |-> r.RootContext, Stream |-> r.Stream,
                            Headers |-> gh, Authentication |-> NoAuth, Steps |-> sc.Steps]
               /\ httpResults = sc.httpResults
        /\ cancelled \in BOOLEAN
        /\ profiler \in {"nil", "on"}
        /\ loginMode = "ok"
     \/ /\ \E sc \in DeepScenarios :
               /\ Config = [RootContext |-> JSeq(<<>>), Stream |-> FALSE,
                            Headers |-> NoParams, Authentication |-> NoAuth,
                            Steps |-> sc.Steps]
               /\ httpResults = sc.httpResults
        /\ cancelled = FALSE
        /\ profiler = "nil"
        /\ loginMode = "ok"
     \/ /\ \E sc \in AuthScenarios :
               /\ Config = [RootContext |-> JSeq(<<>>), Stream |-> FALSE,
                            Headers |-> NoParams, Authentication |-> sc.Authentication,
                            Steps |-> sc.Steps]
               /\ httpResults = sc.httpResults
        /\ cancelled = FALSE
        /\ loginMode \in LoginModes
        /\ profiler \in IF Config.Authentication.Type = "cookie" /\ loginMode = "ok"
                         THEN {"nil", "on"} ELSE {"nil"}
  /\ cancelledAtStart = cancelled
  /\ authenticators = <<NewAuthenticator(Config.Authentication)>>
  /\ clock = 0
  /\ logins = <<>>
  /\ contexts = <<>>
  /\ frames = <<>>
  /\ runPc = "start"
  /\ runNext = 1
  /\ runError = ""
  /\ panicked = FALSE
  /\ issued = <<>>
  /\ stopLog = <<>>
  /\ streamed = <<>>
  /\ mergedIntoRoot = <<>>
  /\ replacedInRoot = {}
  /\ drains = <<>>
  /\ events = <<>>
  /\ aggregated = NoAggregate
  /\ ParIdle

\* --------------------------------------------------------- SpecRun: steps
Running0 == ~panicked /\ runPc = "steps" /\ frames # <<>>

Top == frames[Len(frames)]

SetTop(f) == frames' = [frames EXCEPT ![Len(frames)] = f]

\* an error return unwinds every enclosing handler up to Run
ReturnErrorSwallowed(msg) ==
  /\ runPc' = runPc
  /\ runError' = msg
  /\ frames' = SubSeq(frames, 1, Len(frames) - 1)

ReturnError(msg) ==
  /\ runPc' = "failed"
  /\ runError' = msg
  /\ frames' = <<>>

\* Run: the root context
RunStart ==
  /\ ~panicked
  /\ runPc = "start"
  /\ contexts' = <<NewContext("root", "", 0, Config.RootContext, NoAlias)>>
  /\ runPc' = IF profiler = "nil" THEN "steps" ELSE "rootStart"
  /\ UNCHANGED <<parVars, runCfg, runEnv, runAuth, frames, runNext, runError, panicked, runHist>>

\* Run: c.profiler <- event (ROOT_START). The channel has no buffer: the send
\* completes when a consumer receives the event. A consumer that has taken
\* this event is taken to receive the later ones as well.
RunRootStart ==
  /\ ~panicked
  /\ runPc = "rootStart"
  /\ runPc' = "steps"
  /\ UNCHANGED <<parVars, runCfg, runEnv, runAuth, contexts, frames, runNext, runError, panicked, runHist>>

\* Run: for _, step := range c.Config.Steps { ExecuteStep }
RunExecuteStep ==
  /\ ~panicked
  /\ runPc = "steps"
  /\ frames = <<>>
  /\ runNext \in DOMAIN Config.Steps
  /\ frames' = <<newStepExecution(Config.Steps[runNext], "root", "root" :> 1)>>
  /\ runNext' = runNext + 1
  /\ UNCHANGED <<parVars, runCfg, runEnv, runAuth, contexts, runPc, runError, panicked, runHist>>

RunReturn ==
  /\ ~panicked
  /\ runPc = "steps"
  /\ frames = <<>>
  /\ runNext \notin DOMAIN Config.Steps
  /\ runPc' = "done"
  /\ UNCHANGED <<parVars, runCfg, runEnv, runAuth, contexts, frames, runNext, runError, panicked, runHist>>

\* ExecuteStep: the switch on the step type has no case for this frame
ExecuteStepUnknown ==
  /\ Running0
  /\ Top.pc = "start"
  /\ Top.step.Type \notin {"request", "forEach"}
  /\ ReturnError("unknown step type")
  /\ UNCHANGED <<parVars, runCfg, runEnv, runAuth, contexts, runNext, panicked, runHist>>

\* handleRequest up to the page loop: template context, paginator
HandleRequestInit ==
  /\ Running0
  /\ Top.pc = "start"
  /\ Top.step.Type = "request"
  /\ LET pg == Top.step.Request.Pagination
         p == NewPaginator(pg)
         own == Top.step.Request.Authentication # NoAuth
     IN /\ SetTop([Top EXCEPT !.templateCtx = contextMapToTemplate(contexts, Top.contextMap),
                              !.authenticator = IF own THEN Len(authenticators) + 1 ELSE 1,
                              !.paginator = p,
                              !.next = NextFromCtx(pg, p),
                              !.stop = FALSE,
                              !.stepID = IF profiler = "on" THEN Len(events) + 1 ELSE 0,
                              !.pc = "loop"])
        /\ authenticators' =
             IF own THEN Append(authenticators, NewAuthenticator(Top.step.Request.Authentication))
             ELSE authenticators
  /\ events' = IF profiler = "on" THEN Fresh(events, "REQUEST_STEP_START") ELSE events
  /\ UNCHANGED <<parVars, runCfg, runEnv, clock, logins, contexts, runPc, runNext, runError,
                 panicked, runSeen>>

\* select { case <-ctx.Done(): return ctx.Err() }
CtxNeverDone == FALSE

CtxDone == cancelled

\* the caller cancels ctx while Run is at work. ctx is read at the head of a
\* page and of an iteration only: the cancellation is taken where its moment
\* can make a difference, before such a read or during the stream sends
Cancel ==
  /\ Running0
  /\ Top.pc \in {"loop", "iterate", "stream"}
  /\ ~cancelled
  /\ cancelled' = TRUE
  /\ UNCHANGED <<parVars, runCfg, cancelledAtStart, profiler, aggregated, loginMode, runAuth,
                 contexts, frames, runPc, runNext, runError, panicked, runHist>>

\* for !stop
LoopAlways(f) == TRUE

LoopContinues(f) == ~f.stop

\* one turn of the page loop up to the prepared request
HandleRequestPrepare ==
  /\ Running0
  /\ Top.pc = "loop"
  /\ LoopContinues(Top)
  /\ LET reqCtx == [urlTemplate |-> Top.step.Request.URL,
                    headers |-> Top.step.Request.Headers,
                    configuredBody |-> Top.step.Request.Body,
                    bodyParams |-> Top.next.BodyParams,
                    contentType |-> getContentType(Top.step.Request.Headers),
                    queryParams |-> Top.next.QueryParams,
                    nextPageURL |-> Top.next.NextPageUrl]
         p == prepareHTTPRequest(reqCtx, Top.templateCtx, Config.Headers)
         paged == IF profiler = "on" THEN Fresh(events, "REQUEST_PAGE_START") ELSE events
     IN IF CtxDone
          THEN ReturnError("context canceled") /\ UNCHANGED <<authenticators, logins, events>>
          ELSE IF p.err # ""
          THEN ReturnError(p.err) /\ events' = paged /\ UNCHANGED <<authenticators, logins>>
          ELSE LET au == PrepareRequest(authenticators[Top.authenticator], p.req,
                                        LoginResponse(loginMode, Len(logins) + 1), clock)
               IN /\ SetTop([Top EXCEPT !.pageNum = PageNum(Top.paginator),
                                        !.pageID = IF profiler = "on" THEN Len(events) + 1 ELSE 0,
                                        !.req = au.req, !.authErr = au.err, !.pc = "do"])
                  /\ events' = IF profiler = "on"
                                 THEN AuthEvents(paged, authenticators[Top.authenticator], au.login)
                                 ELSE events
                  /\ authenticators' = [authenticators EXCEPT ![Top.authenticator] = au.a]
                  /\ logins' = IF au.login
                                 THEN Append(logins, [by |-> Top.authenticator, at |-> clock,
                                                      err |-> au.loginErr,
                                                      sent |-> Len(issued)])
                                 ELSE logins
                  /\ UNCHANGED <<runPc, runError>>
  /\ UNCHANGED <<parVars, runCfg, runEnv, clock, contexts, runNext, panicked, runSeen>>

\* time passes between two calls of PrepareRequest
Tick ==
  /\ Running0
  /\ Top.pc = "loop"
  /\ authenticators[Top.authenticator].maxAge > 0
  /\ clock < MaxClock
  /\ clock' = clock + 1
  /\ UNCHANGED <<parVars, runCfg, runEnv, authenticators, logins, contexts, frames, runPc,
                 runNext, runError, panicked, runHist>>

\* c.httpClient.Do(req)
HandleRequestDo ==
  /\ Running0
  /\ Top.pc = "do"
  /\ SetTop([Top EXCEPT !.requests = @ + 1,
                        !.resp = Server(httpResults, Top.req.url, Top.requests + 1),
                        !.pc = "next"])
  /\ issued' = Append(issued, [name |-> Top.step.Name, top |-> runNext - 1,
                               depth |-> Len(frames),
                               pageNum |-> Top.pageNum, checks |-> Len(stopLog),
                               req |-> Top.req,
                               params |-> Top.next,
                               authenticator |-> Top.authenticator,
                               authErr |-> Top.authErr])
  /\ UNCHANGED <<parVars, runCfg, runEnv, runAuth, contexts, runPc, runNext, runError, panicked, stopLog,
                 streamed, mergedIntoRoot, replacedInRoot, drains, events>>

\* next, stop, err = paginator.Next(resp): what stop is assigned
StopKept(f, n) == f.stop

StopAssigned(f, n) == n.stop

\* next, stop, err = paginator.Next(resp)
HandleRequestNext ==
  /\ Running0
  /\ Top.pc = "next"
  /\ LET n == Next(Top.step.Request.Pagination, Top.paginator, Top.resp)
     IN IF n.err # ""
          THEN /\ ReturnError(n.err)
               /\ UNCHANGED stopLog
          ELSE /\ SetTop([Top EXCEPT !.paginator = n.state,
                                     !.next = NextFromCtx(Top.step.Request.Pagination, n.state),
                                     !.stop = StopAssigned(Top, n),
                                     !.pc = "decode"])
               /\ stopLog' = Append(stopLog, [name |-> Top.step.Name, top |-> runNext - 1,
                                              depth |-> Len(frames),
                                              responses |-> Top.requests,
                                              stop |-> n.stop])
               /\ UNCHANGED <<runPc, runError>>
  /\ UNCHANGED <<parVars, runCfg, runEnv, runAuth, contexts, runNext, panicked, issued, streamed,
                 mergedIntoRoot, replacedInRoot, drains, events>>

\* where handleRequest goes on once the page is decoded and transformed:
\* the nested steps and the merge, or at once the next turn of the loop
AfterDecodeSkipsMerge(st) == "loop"

AfterDecode(st) == "nested"

\* json.Decode, transformResult, childMapWith
HandleRequestDecode ==
  /\ Running0
  /\ Top.pc = "decode"
  /\ LET raw == Top.resp.body
         thisContextKey == IF Top.step.As # "" THEN Top.step.As ELSE Top.currentContextKey
         cur == contexts[Top.currentContext]
         id == Len(contexts) + 1
     IN IF TransformFails(raw, Top.step.ResultTransformer)
          THEN /\ ReturnError("error running JQ transformer")
               /\ UNCHANGED contexts
          ELSE /\ contexts' = Append(contexts,
                                NewContext(thisContextKey, cur.key, cur.depth + 1,
                                           transformResult(raw, Top.step.ResultTransformer),
                                           NoAlias))
               /\ SetTop([Top EXCEPT !.thisContextKey = thisContextKey,
                                     !.childContextMap = childMapWith(Top.contextMap, thisContextKey, id),
                                     !.nestedIdx = 1,
                                     !.decoded = @ + 1,
                                     !.pc = AfterDecode(Top.step)])
               /\ UNCHANGED <<runPc, runError>>
  /\ UNCHANGED <<parVars, runCfg, runEnv, runAuth, runNext, panicked, runHist>>

\* for _, step := range exec.step.Steps { ExecuteStep(newStepExecution(...)) }
HandleRequestNested ==
  /\ Running0
  /\ Top.pc = "nested"
  /\ Top.step.Type = "request"
  /\ Top.nestedIdx \in DOMAIN Top.step.Steps
  /\ frames' = Append([frames EXCEPT ![Len(frames)].nestedIdx = @ + 1],
                      newStepExecution(Top.step.Steps[Top.nestedIdx], Top.thisContextKey,
                                       Top.childContextMap))
  /\ UNCHANGED <<parVars, runCfg, runEnv, runAuth, contexts, runPc, runNext, runError, panicked, runHist>>

\* the records a write has put into a sequence
NewlyMerged(old, new) ==
  IF new.kind # "seq" THEN <<>>
  ELSE IF old.kind = "seq" /\ Len(old.v) <= Len(new.v)
          /\ SubSeq(new.v, 1, Len(old.v)) = old.v
    THEN SubSeq(new.v, Len(old.v) + 1, Len(new.v))
    ELSE new.v

\* where a handler goes on after its merge and stream check: the next turn
\* of the page loop, or the end of handleForEach
AfterPage(st) == IF st.Type = "request" THEN "loop" ELSE "return"

\* the positions in the history of the records a write has taken out of the
\* sequence: the sequence held the last records of the history
Extends(old, new) ==
  /\ old.kind = "seq"
  /\ new.kind = "seq"
  /\ Len(old.v) <= Len(new.v)
  /\ SubSeq(new.v, 1, Len(old.v)) = old.v

Replaced(old, new, n) ==
  IF old.kind # "seq" \/ Extends(old, new) THEN {}
  ELSE (n - Len(old.v) + 1)..n

\* REQUEST_PAGE_END at the end of a turn of the page loop: ID: pageID
PageEnd(evs, f) ==
  IF f.step.Type = "request" /\ profiler = "on" /\ f.pageID # 0
    THEN Reuse(evs, "REQUEST_PAGE_END", f.pageID)
    ELSE evs

\* performMerge, then the stream check of the handler at depth <= limit:
\* array_data := exec.currentContext.Data.([]interface{})
MergeAndStream(m, limit) ==
  IF m.panic
    THEN /\ panicked' = TRUE
         /\ UNCHANGED <<contexts, frames, runPc, runError, mergedIntoRoot, replacedInRoot, events>>
  ELSE IF m.err # ""
    THEN /\ ReturnError(m.err)
         /\ UNCHANGED <<contexts, panicked, mergedIntoRoot, replacedInRoot, events>>
  ELSE /\ contexts' = m.ctxs
       /\ mergedIntoRoot' = mergedIntoRoot \o NewlyMerged(contexts[1].Data, m.ctxs[1].Data)
       /\ replacedInRoot' = replacedInRoot \cup Replaced(contexts[1].Data, m.ctxs[1].Data,
                                                         Len(mergedIntoRoot))
       /\ UNCHANGED <<runPc, runError>>
       /\ IF m.ctxs[Top.currentContext].depth <= limit /\ Config.Stream
            THEN IF m.ctxs[Top.currentContext].Data.kind # "seq"
                   THEN /\ panicked' = TRUE
                        /\ UNCHANGED <<frames, events>>
                   ELSE /\ SetTop([Top EXCEPT !.array_data = m.ctxs[Top.currentContext].Data.v,
                                              !.drained = 0,
                                              !.merged = @ + 1,
                                              !.pc = "stream"])
                        /\ UNCHANGED <<panicked, events>>
            ELSE /\ SetTop([Top EXCEPT !.merged = @ + 1, !.pc = AfterPage(Top.step)])
                 /\ events' = PageEnd(events, Top)
                 /\ UNCHANGED panicked

\* the final data of the child context is merged; at depth 0 the stream check
HandleRequestMerge ==
  /\ Running0
  /\ Top.pc = "nested"
  /\ Top.step.Type = "request"
  /\ Top.nestedIdx \notin DOMAIN Top.step.Steps
  /\ MergeAndStream(performMerge(contexts,
                      [step |-> Top.step, currentContext |-> Top.currentContext,
                       contextMap |-> Top.contextMap,
                       result |-> contexts[Top.childContextMap[Top.thisContextKey]].Data]), 0)
  /\ UNCHANGED <<parVars, runCfg, runEnv, runAuth, runNext, issued, stopLog, streamed, drains>>

\* for _, d := range array_data { c.DataStream <- d }: one send; the channel
\* is unbuffered, the consumer takes the record
StreamSend ==
  /\ Running0
  /\ Top.pc = "stream"
  /\ Top.drained < Len(Top.array_data)
  /\ streamed' = Append(streamed, [record |-> Top.array_data[Top.drained + 1],
                                   from |-> Top.currentContext])
  /\ SetTop([Top EXCEPT !.drained = @ + 1])
  /\ UNCHANGED <<parVars, runCfg, runEnv, runAuth, contexts, runPc, runNext, runError, panicked, issued, stopLog,
                 mergedIntoRoot, replacedInRoot, drains, events>>

\* exec.currentContext.Data = []interface{}{}
DataKeptAfterDrain(data) == data

DataAfterDrain(data) == JSeq(<<>>)

StreamReset ==
  /\ Running0
  /\ Top.pc = "stream"
  /\ Top.drained = Len(Top.array_data)
  /\ contexts' = [contexts EXCEPT ![Top.currentContext].Data = DataAfterDrain(@)]
  /\ drains' = Append(drains, Top.currentContext)
  /\ SetTop([Top EXCEPT !.pc = AfterPage(Top.step)])
  /\ events' = PageEnd(events, Top)
  /\ UNCHANGED <<parVars, runCfg, runEnv, runAuth, runPc, runNext, runError, panicked, issued, stopLog, streamed,
                 mergedIntoRoot, replacedInRoot>>

\* the loop has ended: return nil
HandleRequestReturn ==
  /\ Running0
  /\ Top.pc = "loop"
  /\ ~LoopContinues(Top)
  /\ frames' = SubSeq(frames, 1, Len(frames) - 1)
  /\ events' = IF profiler = "on" /\ Top.stepID # 0
                 THEN Reuse(events, "REQUEST_STEP_END", Top.stepID) ELSE events
  /\ UNCHANGED <<parVars, runCfg, runEnv, runAuth, contexts, runPc, runNext, runError, panicked, runSeen>>

\* handleForEach: the items, by path or from values
\* .<name> of a mapping: null when the key is absent
Field(data, name) == IF name \in DOMAIN data.v THEN data.v[name] ELSE JNull

\* jq reports an error: a field of a sequence, the elements of no sequence
PathFails(st, data) ==
  /\ st.Values = <<>>
  /\ \/ st.Path \in {".items", ".items, .next", ".items[]"} /\ data.kind # "map"
     \/ st.Path = ".items[]" /\ data.kind = "map" /\ Field(data, "items").kind # "seq"

\* the items without the unwrapping of a single sequence
ExtractItemsAsEmitted(st, cur, data) ==
  IF st.Path # "" /\ st.Values = <<>>
    THEN IF st.Path = ".items[]"
           THEN [k \in DOMAIN Field(data, "items").v |->
                   [item |-> Field(data, "items").v[k],
                    alias |-> [ctx |-> cur, path |-> ".items", idx |-> k]]]
         ELSE IF st.Path = ".items, .next"
           THEN <<[item |-> Field(data, "items"), alias |-> NoAlias],
                  [item |-> Field(data, "next"), alias |-> NoAlias]>>
           ELSE <<[item |-> IF st.Path = "." THEN data ELSE Field(data, "items"),
                   alias |-> NoAlias]>>
    ELSE [k \in DOMAIN st.Values |->
            [item |-> JMap([value |-> JNum(st.Values[k])]), alias |-> NoAlias]]

ExtractItems(st, cur, data) ==
  IF st.Path # "" /\ st.Values = <<>>
    THEN LET v == IF st.Path = "." THEN data ELSE Field(data, "items")
         IN IF st.Path = ".items, .next"
              THEN <<[item |-> v, alias |-> NoAlias],
                     [item |-> Field(data, "next"), alias |-> NoAlias]>>
            ELSE IF st.Path = ".items[]"
              THEN IF Len(v.v) = 1 /\ v.v[1].kind = "seq"
                     THEN [k \in DOMAIN v.v[1].v |-> [item |-> v.v[1].v[k], alias |-> NoAlias]]
                     ELSE [k \in DOMAIN v.v |->
                             [item |-> v.v[k],
                              alias |-> [ctx |-> cur, path |-> ".items", idx |-> k]]]
            ELSE IF v.kind = "seq"
              THEN [k \in DOMAIN v.v |->
                      [item |-> v.v[k], alias |-> [ctx |-> cur, path |-> st.Path, idx |-> k]]]
              ELSE <<[item |-> v,
                      alias |-> IF st.Path = "." THEN [ctx |-> cur, path |-> ".", idx |-> 0]
                                ELSE NoAlias]>>
    ELSE [k \in DOMAIN st.Values |->
            [item |-> JMap([value |-> JNum(st.Values[k])]), alias |-> NoAlias]]

HandleForEachExtract ==
  /\ Running0
  /\ Top.pc = "start"
  /\ Top.step.Type = "forEach"
  /\ LET data == contexts[Top.currentContext].Data
     IN IF PathFails(Top.step, data)
          THEN ReturnError("jq error")
          ELSE /\ SetTop([Top EXCEPT !.results = ExtractItems(Top.step, Top.currentContext, data),
                                     !.i = 0,
                                     !.executionResults = <<>>,
                                     !.stepID = IF profiler = "on" THEN Len(events) + 1 ELSE 0,
                                     !.pc = "iterate"])
               /\ UNCHANGED <<runPc, runError>>
  /\ events' = IF profiler = "on" THEN Fresh(events, "FOREACH_STEP_START") ELSE events
  /\ UNCHANGED <<parVars, runCfg, runEnv, runAuth, contexts, runNext, panicked, runSeen>>

\* sequential branch: childMapWith for the next item
HandleForEachItem ==
  /\ Running0
  /\ Top.pc = "iterate"
  /\ Top.i < Len(Top.results)
  /\ LET cur == contexts[Top.currentContext]
         r == Top.results[Top.i + 1]
         id == Len(contexts) + 1
     IN IF CtxDone
          THEN ReturnError("context canceled") /\ UNCHANGED contexts
          ELSE /\ contexts' = Append(contexts,
                         NewContext(Top.step.As, cur.key, cur.depth + 1, r.item, r.alias))
               /\ SetTop([Top EXCEPT !.i = @ + 1,
                              !.thisContextKey = Top.step.As,
                              !.childContextMap = childMapWith(Top.contextMap, Top.step.As, id),
                              !.nestedIdx = 1,
                              !.pc = "nested"])
               /\ UNCHANGED <<runPc, runError>>
  /\ UNCHANGED <<parVars, runCfg, runEnv, runAuth, runNext, panicked, runHist>>

HandleForEachNested ==
  /\ Running0
  /\ Top.pc = "nested"
  /\ Top.step.Type = "forEach"
  /\ Top.nestedIdx \in DOMAIN Top.step.Steps
  /\ frames' = Append([frames EXCEPT ![Len(frames)].nestedIdx = @ + 1],
                      newStepExecution(Top.step.Steps[Top.nestedIdx], Top.step.As,
                                       Top.childContextMap))
  /\ UNCHANGED <<parVars, runCfg, runEnv, runAuth, contexts, runPc, runNext, runError, panicked, runHist>>

\* executionResults = append(executionResults, childContextMap[exec.step.As].Data)
HandleForEachCollect ==
  /\ Running0
  /\ Top.pc = "nested"
  /\ Top.step.Type = "forEach"
  /\ Top.nestedIdx \notin DOMAIN Top.step.Steps
  /\ SetTop([Top EXCEPT !.executionResults =
                           Append(@, contexts[Top.childContextMap[Top.step.As]].Data),
                        !.pc = "iterate"])
  /\ UNCHANGED <<parVars, runCfg, runEnv, runAuth, contexts, runPc, runNext, runError, panicked, runHist>>

hasCustomMerge(st) ==
  \/ st.MergeOn # ""
  \/ st.MergeWithParentOn # ""
  \/ st.MergeWithContext # NoMergeWithContext
  \/ st.NoopMerge

\* default: <path> = $new on the data of the current context
\* what <path> = $new evaluates to: "," binds weaker than "=", so the
\* patch of ".items, .next" is the stream of .items and of (.next = $new)
PatchValues(data, path, new) ==
  IF path = ".items, .next"
    THEN <<Field(data, "items"), JMap(Overlay(data.v, [next |-> new]))>>
  ELSE IF path = ".items[]"
    THEN <<JMap(Overlay(data.v, [items |-> JSeq([k \in DOMAIN data.v["items"].v |-> new])]))>>
    ELSE <<PathSet(data, path, new)>>

PatchFails(data, path) ==
  \/ path \in {".items", ".items, .next", ".items[]"} /\ data.kind # "map"
  \/ path = ".items[]" /\ data.kind = "map" /\ Field(data, "items").kind # "seq"

PatchOutcome(ctxs, st, cur, new) ==
  LET data == ctxs[cur].Data
      values == PatchValues(data, st.Path, JSeq(new))
  IN IF st.Path = "" THEN MergeOutcome("failed to get/compile merge rule", FALSE, ctxs)
     ELSE IF PatchFails(data, st.Path) THEN MergeOutcome("jq error", FALSE, ctxs)
     ELSE IF Len(values) = 0 THEN MergeOutcome("patch yielded nothing", FALSE, ctxs)
     ELSE MergeOutcome("", FALSE, [ctxs EXCEPT ![cur].Data = values[1]])

\* the merge of the forEach step, then the stream check at depth <= 1
HandleForEachMerge ==
  /\ Running0
  /\ Top.pc = "iterate"
  /\ Top.i = Len(Top.results)
  /\ MergeAndStream(IF hasCustomMerge(Top.step)
                      THEN performMerge(contexts,
                             [step |-> Top.step, currentContext |-> Top.currentContext,
                              contextMap |-> Top.contextMap,
                              result |-> JSeq(Top.executionResults)])
                      ELSE PatchOutcome(contexts, Top.step, Top.currentContext,
                                        Top.executionResults), 1)
  /\ UNCHANGED <<parVars, runCfg, runEnv, runAuth, runNext, issued, stopLog, streamed, drains>>

HandleForEachReturn ==
  /\ Running0
  /\ Top.pc = "return"
  /\ frames' = SubSeq(frames, 1, Len(frames) - 1)
  /\ events' = IF profiler = "on" /\ Top.stepID # 0
                 THEN Reuse(events, "FOREACH_STEP_END", Top.stepID) ELSE events
  /\ UNCHANGED <<parVars, runCfg, runEnv, runAuth, contexts, runPc, runNext, runError, panicked, runSeen>>

NextRun ==
  \/ RunStart
  \/ RunRootStart
  \/ RunExecuteStep
  \/ RunReturn
  \/ ExecuteStepUnknown
  \/ HandleRequestInit
  \/ HandleRequestPrepare
  \/ Tick
  \/ Cancel
  \/ HandleRequestDo
  \/ HandleRequestNext
  \/ HandleRequestDecode
  \/ HandleRequestNested
  \/ HandleRequestMerge
  \/ StreamSend
  \/ StreamReset
  \/ HandleRequestReturn
  \/ HandleForEachExtract
  \/ HandleForEachItem
  \/ HandleForEachNested
  \/ HandleForEachCollect
  \/ HandleForEachMerge
  \/ HandleForEachReturn

SpecRun == InitRun /\ [][NextRun]_vars

\* SpecLive: the goroutine of Run keeps taking its steps. The step that ends
\* the send of ROOT_START is the consumer's receive and is under no fairness:
\* nothing obliges the caller of EnableProfiler to read the channel.
SpecLive == SpecRun /\ WF_vars(NextRun /\ runPc # "rootStart")

\* c.DataStream <- d with a record still to send: the send ends when the
\* consumer receives
AtStreamSend == Running0 /\ Top.pc = "stream" /\ Top.drained < Len(Top.array_data)

\* SpecStall: as SpecLive, and nothing obliges the consumer of DataStream to
\* receive either
SpecStall == SpecRun /\ WF_vars(NextRun /\ runPc # "rootStart" /\ ~AtStreamSend)

\* ----------------------------------------- SpecBoth: Run twice on one manifest
\* The manifest is run without stream, then once more, with stream: true, by
\* a crawler built anew from it, against the same responses.
InitBoth ==
  /\ InitRun
  /\ Config.RootContext.kind = "seq"
  /\ ~Config.Stream

\* NewApiCrawler and Run on the manifest with stream: true, after the run
\* without stream has ended
RunAgain ==
  /\ ~aggregated.made
  /\ panicked \/ runPc \in {"done", "failed"}
  /\ aggregated' = [made |-> TRUE,
                    err |-> IF panicked THEN "panic" ELSE runError,
                    data |-> contexts[1].Data]
  /\ Config' = [Config EXCEPT !.Stream = TRUE]
  /\ contexts' = <<>>
  /\ frames' = <<>>
  /\ runPc' = "start"
  /\ runNext' = 1
  /\ runError' = ""
  /\ panicked' = FALSE
  /\ issued' = <<>>
  /\ stopLog' = <<>>
  /\ streamed' = <<>>
  /\ mergedIntoRoot' = <<>>
  /\ replacedInRoot' = {}
  /\ drains' = <<>>
  /\ events' = <<>>
  /\ authenticators' = <<NewAuthenticator(Config.Authentication)>>
  /\ logins' = <<>>
  /\ UNCHANGED <<parVars, httpResults, cancelled, cancelledAtStart, profiler, loginMode, clock>>

NextBoth ==
  \/ RunStart
  \/ RunRootStart
  \/ RunExecuteStep
  \/ RunReturn
  \/ ExecuteStepUnknown
  \/ HandleRequestInit
  \/ HandleRequestPrepare
  \/ Tick
  \/ HandleRequestDo
  \/ HandleRequestNext
  \/ HandleRequestDecode
  \/ HandleRequestNested
  \/ HandleRequestMerge
  \/ StreamSend
  \/ StreamReset
  \/ HandleRequestReturn
  \/ HandleForEachExtract
  \/ HandleForEachItem
  \/ HandleForEachNested
  \/ HandleForEachCollect
  \/ HandleForEachMerge
  \/ HandleForEachReturn
  \/ RunAgain

SpecBoth == InitBoth /\ [][NextBoth]_vars

\* ------------------------------------------------------- SpecRun: claims
\* the requests and the stop checks of the top-level step k, in order
IsOfStep(e, k) == e.top = k /\ e.depth = 1

RECURSIVE Restrict(_, _)
Restrict(log, k) ==
  IF log = <<>> THEN <<>>
  ELSE (IF IsOfStep(Head(log), k) THEN <<Head(log)>> ELSE <<>>) \o Restrict(Tail(log), k)

PagesOf(k) == Restrict(issued, k)

ChecksOf(k) == Restrict(stopLog, k)

\* handleRequest or handleForEach has returned nil for the top-level step k
StepReturned(k) ==
  /\ ~panicked
  /\ runPc \in {"steps", "done"}
  /\ runNext > k
  /\ runNext = k + 1 => frames = <<>>

\* the manifest is one top-level request step with this pagination
OnlyRequest(pg) ==
  /\ Len(Config.Steps) = 1
  /\ Config.Steps[1].Type = "request"
  /\ Config.Steps[1].Steps = <<>>
  /\ Config.Steps[1].Request.Pagination = pg

\* C5: for a paginated request step, page 1 is issued before any stop check,
\* the i-th stop check is made when the i-th response has been received, a
\* further page is issued only after a check that did not match, and when the
\* step returns the number of pages issued is the index (from 0) of the first
\* check that matched, plus one.
C5_PagesUntilFirstStop ==
  \A k \in DOMAIN Config.Steps :
    (Config.Steps[k].Type = "request" /\ HasPagination(Config.Steps[k].Request.Pagination)) =>
      LET P == PagesOf(k)
          S == ChecksOf(k)
      IN /\ \A i \in DOMAIN P :
              Cardinality({j \in 1..P[i].checks : IsOfStep(stopLog[j], k)}) = i - 1
         /\ \A i \in DOMAIN S : S[i].responses = i
         /\ Len(S) <= Len(P)
         /\ \A i \in DOMAIN S : i < Len(P) => ~S[i].stop
         /\ StepReturned(k) => /\ Len(P) >= 1
                               /\ Len(S) = Len(P)
                               /\ S[Len(P)].stop

C5_Witness ==
  /\ runPc = "done"
  /\ OnlyRequest(PgEmptyOrPageNum(MaxPages))
  /\ Len(PagesOf(1)) = 2
  /\ ChecksOf(1)[2].stop

\* C6: with the int query parameter offset (default 0, increment 1) and the
\* stop condition requestParam offset gte 2, the step sends offset=0, then
\* offset=1, nothing else, and has sent exactly these two when it returns.
C6_OffsetZeroThenOne ==
  (OnlyRequest(PgOffset(0, 2)) /\ Config.Steps[1].Request.URL = ListURL) =>
     LET P == PagesOf(1)
     IN /\ Len(P) <= 2
        /\ \A i \in DOMAIN P : P[i].req.url.query = <<(<<"offset", IntToStr(i - 1)>>)>>
        /\ \A i \in DOMAIN issued : <<"offset", "2">> \notin {issued[i].req.url.query[j] :
                                                              j \in DOMAIN issued[i].req.url.query}
        /\ StepReturned(1) => Len(P) = 2

C6_Witness ==
  /\ OnlyRequest(PgOffset(0, 2))
  /\ runPc = "done"
  /\ Len(PagesOf(1)) = 2
  /\ PagesOf(1)[2].req.url.query = <<(<<"offset", "1">>)>>

\* C7: with the single stop condition pageNum N, a request step issues N pages
\* for N >= 1 and one page for N = 0: never more, and exactly as many when it
\* returns.
C7_PageNumStop ==
  \A n \in 0..MaxPages :
    OnlyRequest(PgPageNum(n)) =>
      LET want == IF n >= 1 THEN n ELSE 1
      IN /\ Len(PagesOf(1)) <= want
         /\ StepReturned(1) => Len(PagesOf(1)) = want

C7_Witness ==
  /\ OnlyRequest(PgPageNum(MaxPages))
  /\ runPc = "done"
  /\ Len(PagesOf(1)) = MaxPages

\* the manifest is S1: the next-token pagination against a chain of n tokens
NextTokenScenario(n) == OnlyRequest(PgNextToken) /\ httpResults = TokenScript(n)

\* C8: with token_body (query, from body:.nextToken) and token_header (header,
\* from header:X-Next-Token) and the stop expression .nextToken == null, page 1
\* carries neither parameter, page k > 1 carries the two values of response
\* k - 1, and no page follows the first response whose nextToken is null.
C8_DynamicParamsCarried ==
  \A n \in 1..MaxPages :
    NextTokenScenario(n) =>
      LET P == PagesOf(1)
      IN /\ Len(P) <= n
         /\ StepReturned(1) => Len(P) = n
         /\ \A i \in DOMAIN P :
              LET q == ParseQuery(P[i].req.url.query)
                  h == P[i].req.header
                  name == CanonicalKey("token_header")
              IN IF i = 1
                   THEN "token_body" \notin DOMAIN q /\ name \notin DOMAIN h
                   ELSE /\ "token_body" \in DOMAIN q
                        /\ q["token_body"] = Tokens[i - 1]
                        /\ name \in DOMAIN h
                        /\ h[name] = HeaderTokens[i - 1]

\* the manifest paginates by nextPageUrlSelector over n linked pages
NextUrlScenario(n, style) ==
  OnlyRequest(PgNextUrl) /\ httpResults = NextUrlScript(n, style)

SortedByKey(q) == \A i, j \in DOMAIN q : i < j => KeyRank(q[i][1]) < KeyRank(q[j][1])

\* u as sent: the same URL up to "?", the same parameters, sorted by key
SentAs(sent, u) ==
  /\ sent.base = u.base
  /\ sent.id = u.id
  /\ ParseQuery(sent.query) = ParseQuery(u.query)
  /\ Len(sent.query) = Len(u.query)
  /\ SortedByKey(sent.query)

RECURSIVE SentFrom(_, _)
SentFrom(log, c) ==
  IF log = <<>> THEN <<>>
  ELSE (IF Head(log).from = c THEN <<Head(log).record>> ELSE <<>>) \o SentFrom(Tail(log), c)

\* the records of the root not yet sent: all of them, less those a running
\* drain of the root has sent
PendingInRoot ==
  LET root == contexts[1].Data.v
  IN IF frames # <<>> /\ Top.pc = "stream" /\ Top.currentContext = 1
       THEN SubSeq(root, Top.drained + 1, Len(root))
       ELSE root

\* a top-level handler stands right after its stream check
AfterDrain == Len(frames) = 1 /\ Top.pc \in {"loop", "return"}

RECURSIVE KeptFrom(_)
KeptFrom(n) ==
  IF n = 0 THEN <<>>
  ELSE KeptFrom(n - 1) \o (IF n \in replacedInRoot THEN <<>> ELSE <<mergedIntoRoot[n]>>)

KeptInRoot == KeptFrom(Len(mergedIntoRoot))

\* a top-level forEach with the default merge (<path> = $new) whose nested
\* step merges into the root
ReplacesRoot(st) ==
  /\ st.Type = "forEach"
  /\ ~hasCustomMerge(st)
  /\ \E i \in DOMAIN st.Steps :
       \/ st.Steps[i].MergeWithParentOn # ""
       \/ st.Steps[i].MergeWithContext.Name = "root"

Emitted == [i \in DOMAIN streamed |-> streamed[i].record]

\* C11: for a manifest with a sequence root, when the run without stream and
\* the run with stream: true have both returned nil, the records streamed, in
\* emission order, are the root sequence of the run without stream.
C11_StreamedIsAggregated ==
  (aggregated.made /\ aggregated.err = "" /\ runPc = "done" /\ ~panicked) =>
     aggregated.data = JSeq(Emitted)

\* ------------------------------------------------- SpecRun: cancellation
\* Run has returned
RunReturned == ~panicked /\ runPc \in {"done", "failed"}

\* C12: when ctx is cancelled before Run starts, no request is issued, no
\* record is sent on the stream, and Run returns the cancellation error.
C12_CancelledBeforeStart ==
  cancelledAtStart =>
     /\ issued = <<>>
     /\ streamed = <<>>
     /\ RunReturned => runPc = "failed" /\ runError = "context canceled"

\* ------------------------------------------------------ SpecLive: claims
\* C13: with the profiler enabled, Run eventually returns (or the process
\* ends), whether or not the profiler channel is ever read.
C13_RunCompletesUnread ==
  (profiler = "on") ~> (panicked \/ runPc \in {"done", "failed"})

\* the login sub-requests the authenticator i has sent, in order
LoginsOf(i) == SelectSeq(logins, LAMBDA l : l.by = i)

\* C14: a cookie, jwt or custom authenticator with onePerRun whose first login
\* has succeeded sends no second login request, whatever maxAgeSeconds is and
\* however much time passes between the requests.
C14_OneLoginPerRun ==
  \A i \in DOMAIN authenticators :
    (/\ authenticators[i].Type \in {"cookie", "jwt", "custom"}
     /\ authenticators[i].onePerRun
     /\ LoginsOf(i) # <<>>
     /\ LoginsOf(i)[1].err = "")
      => Len(LoginsOf(i)) = 1

\* the credential the k-th login response holds at the place from
Credential(from, k) ==
  CASE from = "header" -> "h" \o IntToStr(k)
    [] from = "body" -> "b" \o IntToStr(k)
    [] OTHER -> "c" \o IntToStr(k)

\* req carries the credential of the k-th login at the place the
\* authenticator a is configured to put it
Carries(a, req, k) ==
  LET cred == Credential(a.extractFrom, k)
      into == CASE a.Type = "cookie" -> "cookie"
                [] a.Type = "jwt" -> "bearer"
                [] OTHER -> a.injectInto
  IN CASE into = "cookie" ->
            /\ "Cookie" \in DOMAIN req.header
            /\ \E n \in {"session", a.extractSelector} : req.header["Cookie"] = n \o "=" \o cred
       [] into = "header" ->
            a.injectKey \in DOMAIN req.header /\ req.header[a.injectKey] = cred
       [] into = "bearer" ->
            "Authorization" \in DOMAIN req.header
              /\ req.header["Authorization"] = "Bearer " \o cred
       [] into = "query" ->
            a.injectKey \in DOMAIN ParseQuery(req.url.query)
              /\ ParseQuery(req.url.query)[a.injectKey] = cred
       [] OTHER -> FALSE

\* C15: the executions of the request steps that refer to one authentication
\* section, the global one or the section of a request step executed several
\* times, share one credential state: while the login endpoint accepts and no
\* time has passed, the crawl logs in once and every main request carries the
\* credential of that login.
C15_SharedCredentialState ==
  (loginMode = "ok" /\ clock = 0) =>
    /\ Len(logins) <= 1
    /\ \A r \in DOMAIN issued :
         authenticators[issued[r].authenticator].Type \in {"cookie", "jwt"}
           => Carries(authenticators[issued[r].authenticator], issued[r].req, 1)

\* C16: after a login sub-request that has failed or was answered with a
\* status outside 2xx, the main request is not issued and Run does not
\* return nil.
C16_FailedLoginStopsRun ==
  \A l \in DOMAIN logins :
    logins[l].err \in {"login request failed", "login request failed with status"}
      => /\ Len(issued) = logins[l].sent
         /\ runPc # "done"

\* C17: every request a custom authenticator has prepared without error
\* carries, at the place injectInto names, the credential a successful login
\* of that authenticator has extracted from the place extractFrom names.
C17_CustomCredentialPlaced ==
  \A r \in DOMAIN issued :
    LET i == issued[r].authenticator
    IN (authenticators[i].Type = "custom" /\ issued[r].authErr = "")
         => \E k \in DOMAIN logins :
              /\ logins[k].by = i
              /\ logins[k].err = ""
              /\ Carries(authenticators[i], issued[r].req, k)

\* the request step on top of the stack is about to merge its result
AtRequestMerge ==
  /\ Running0
  /\ Top.pc = "nested"
  /\ Top.step.Type = "request"
  /\ Top.nestedIdx \notin DOMAIN Top.step.Steps

\* the context the directive of the step names: 0 for noopMerge and for a
\* target that is not in scope
TargetOf(f) ==
  LET st == f.step
      parent == contexts[f.currentContext].ParentContext
  IN CASE st.NoopMerge -> 0
       [] ~st.NoopMerge /\ st.MergeOn # "" -> f.currentContext
       [] ~st.NoopMerge /\ st.MergeOn = "" /\ st.MergeWithParentOn # "" ->
            IF parent \in DOMAIN f.contextMap THEN f.contextMap[parent] ELSE 0
       [] ~st.NoopMerge /\ st.MergeOn = "" /\ st.MergeWithParentOn = ""
            /\ st.MergeWithContext # NoMergeWithContext ->
            IF st.MergeWithContext.Name \in DOMAIN f.contextMap
              THEN f.contextMap[st.MergeWithContext.Name] ELSE 0
       [] OTHER -> f.currentContext

\* C18: the merge of a request step changes the data of the one context its
\* directive names (the current context for mergeOn and for the default
\* merge, the parent for mergeWithParentOn, the named context for
\* mergeWithContext, none for noopMerge) and of no other context.
C18_MergeChangesOneContext ==
  [][AtRequestMerge =>
       \A c \in DOMAIN contexts : c # TargetOf(Top) => contexts'[c].Data = contexts[c].Data]_vars

\* C19: a merge whose target does not exist (mergeWithContext names a context
\* that is not in scope, mergeWithParentOn where the current context has no
\* parent in scope) makes Run return an error, without a crash, and changes
\* the data of no context.
C19_MissingTargetIsError ==
  [][(AtRequestMerge /\ ~Top.step.NoopMerge /\ Top.step.MergeOn = "" /\ TargetOf(Top) = 0) =>
       /\ ~panicked'
       /\ runPc' = "failed"
       /\ contexts' = contexts]_vars

\* C20: the default merge of a request step appends when target and incoming
\* value are sequences, overlays when both are mappings, replaces the target
\* otherwise, and does not fail.
C20_DefaultMergeByShape ==
  [][(AtRequestMerge /\ ~hasCustomMerge(Top.step)) =>
       LET cur == Top.currentContext
           old == contexts[cur].Data
           res == contexts[Top.childContextMap[Top.thisContextKey]].Data
       IN /\ ~panicked'
          /\ runPc' # "failed"
          /\ contexts'[cur].Data =
               IF old.kind = "seq" /\ res.kind = "seq" THEN JSeq(old.v \o res.v)
               ELSE IF old.kind = "map" /\ res.kind = "map" THEN JMap(Overlay(old.v, res.v))
               ELSE res]_vars

\* the request step on top of the stack is about to transform a decoded page
AtTransform == Running0 /\ Top.pc = "decode" /\ Top.step.ResultTransformer # ""

\* C21: when the resultTransformer of a request step yields no value or more
\* than one value on a decoded page, the step fails with an error and the
\* page's result is neither placed in a child context nor merged.
C21_TransformerCardinality ==
  [][(/\ AtTransform
      /\ ~TransformErrs(Top.resp.body, Top.step.ResultTransformer)
      /\ Len(TransformValues(Top.resp.body, Top.step.ResultTransformer)) # 1) =>
       /\ runPc' = "failed"
       /\ contexts' = contexts]_vars

\* the stores of the run: the context map of every step execution and the
\* child map it has built
Stores == {frames[i].contextMap : i \in DOMAIN frames}
            \cup {frames[i].childContextMap : i \in DOMAIN frames}

\* C22: in every store of a run the root context has depth 0, and for every
\* other context c the store binds, the context the same store binds to the
\* parent key of c has depth c.depth - 1; a child context that a request step
\* creates without "as" under the key of the current context is included.
C22_DepthIsParentDepthPlusOne ==
  \A store \in Stores : \A k \in DOMAIN store :
    LET c == contexts[store[k]]
    IN IF store[k] = 1 THEN c.depth = 0
       ELSE /\ c.ParentContext \in DOMAIN store
            /\ contexts[store[c.ParentContext]].depth = c.depth - 1

\* the headers a page request of the top-level step of e is to carry: the
\* global headers, then the request's, then the paginator's for that page
HeadersDue(e) ==
  SetAll(SetAll(SetAll(NoParams, Config.Headers), Config.Steps[e.top].Request.Headers),
         e.params.Headers)

\* C23: every page request carries the global headers, the headers of the
\* request and the header parameters of the paginator for that page; the
\* request's header overrides the global one, the paginator's overrides both.
C23_HeaderPrecedence ==
  \A r \in DOMAIN issued :
    issued[r].depth = 1 =>
      \A k \in DOMAIN HeadersDue(issued[r]) :
        /\ k \in DOMAIN issued[r].req.header
        /\ issued[r].req.header[k] = HeadersDue(issued[r])[k]

\* C24: within one execution of a request step the request for the next page
\* is issued only when every page issued before has been decoded, its nested
\* steps have returned (the step is on top of the stack again) and its merge
\* has been applied; at most one page of the execution is in flight.
C24_PagesStrictlySequential ==
  [][issued' # issued =>
       /\ Top.step.Type = "request"
       /\ Top.decoded = Top.requests
       /\ Top.merged = Top.requests
       /\ \A i \in DOMAIN frames :
            frames[i].step.Type = "request" => frames[i].requests - frames[i].merged \in {0, 1}]_vars

\* a second page has been issued by a request step with nested steps
C24_Witness ==
  \E i \in DOMAIN frames :
    /\ frames[i].step.Type = "request"
    /\ frames[i].step.Steps # <<>>
    /\ frames[i].requests >= 2
    /\ frames[i].merged >= 1

\* C25: once ctx is cancelled Run returns, also when the interpreter is at a
\* stream send that no consumer receives (the profiler is off).
C25_CancelledRunReturns ==
  (cancelled /\ profiler = "nil") ~> (panicked \/ runPc \in {"done", "failed"})

\* the authenticator holds a credential
Held(a) ==
  CASE a.Type = "cookie" -> a.cookie # NoCookie
    [] a.Type = "jwt" -> a.token # ""
    [] OTHER -> a.token # "" \/ a.cookie # NoCookie

\* the request step on top of the stack is about to call PrepareRequest
AtPrepareRequest ==
  /\ Running0
  /\ Top.pc = "loop"
  /\ LoopContinues(Top)

\* C26: a cookie, jwt or custom authenticator with onePerRun false logs in
\* in a call of PrepareRequest exactly when it holds no credential, or
\* maxAgeSeconds > 0 and more than maxAgeSeconds have passed since the
\* credential was acquired; with maxAgeSeconds = 0 no call after a successful
\* login logs in.
C26_LoginWhenMissingOrExpired ==
  [][(/\ AtPrepareRequest
      /\ Len(frames') = Len(frames)
      /\ frames'[Len(frames)].pc = "do"
      /\ authenticators[Top.authenticator].Type \in {"cookie", "jwt", "custom"}
      /\ ~authenticators[Top.authenticator].onePerRun) =>
       LET a == authenticators[Top.authenticator]
           before == LoginsOf(Top.authenticator)
       IN /\ (logins' # logins) <=>
               (~Held(a) \/ (a.maxAge > 0 /\ clock - a.acquiredAt > a.maxAge))
          /\ (a.maxAge = 0 /\ \E k \in DOMAIN before : before[k].err = "")
               => logins' = logins]_vars

\* the workers whose request has left PrepareRequest
PastAuth == {i \in Workers : i \in DOMAIN prepared}

AtForEachMerge ==
  /\ Running0
  /\ Top.pc = "iterate"
  /\ Top.step.Type = "forEach"
  /\ Top.i = Len(Top.results)

\* the merge about to run evaluates a rule against a target that exists
RuleMergeDue ==
  /\ AtRequestMerge \/ AtForEachMerge
  /\ ~Top.step.NoopMerge
  /\ hasCustomMerge(Top.step) \/ Top.step.Type = "forEach"
  /\ TargetOf(Top) # 0

\* the rule, the value handed to it, and whether its evaluation is an error
RuleEvaluation ==
  LET st == Top.step
      data == contexts[TargetOf(Top)].Data
      res == IF st.Type = "forEach" THEN JSeq(Top.executionResults)
             ELSE contexts[Top.childContextMap[Top.thisContextKey]].Data
      rule == IF st.MergeOn # "" THEN st.MergeOn
              ELSE IF st.MergeWithParentOn # "" THEN st.MergeWithParentOn
              ELSE st.MergeWithContext.Rule
  IN IF hasCustomMerge(st)
       THEN [values |-> IF RuleFails(rule, data) THEN <<>> ELSE RunRule(rule, data, res),
             fails |-> RuleFails(rule, data)]
       ELSE [values |-> IF st.Path = "" \/ PatchFails(data, st.Path) THEN <<>>
                        ELSE PatchValues(data, st.Path, res),
             fails |-> st.Path = "" \/ PatchFails(data, st.Path)]

\* C28: a rule-based merge (mergeOn, mergeWithParentOn, mergeWithContext, the
\* default patch of a forEach) that completes produced exactly one value, and
\* that value is the new data of the target; a rule that produces zero or
\* several values, or fails, makes the merge fail and leaves the data of the
\* target unchanged.
C28_RuleYieldsExactlyOne ==
  [][(RuleMergeDue /\ clock' = clock /\ cancelled' = cancelled) =>
       LET t == TargetOf(Top)
           e == RuleEvaluation
       IN /\ (runPc' # "failed" /\ ~panicked') =>
               /\ ~e.fails
               /\ Len(e.values) = 1
               /\ contexts'[t].Data = e.values[1]
          /\ (e.fails \/ Len(e.values) # 1) =>
               /\ runPc' = "failed"
               /\ contexts'[t].Data = contexts[t].Data]_vars

\* C29: creating a child context does not change the parent store. The store
\* of Run binds "root" alone; the store a nested step starts from is the
\* child store of the enclosing step, which binds every name of the store of
\* the enclosing step to the same context, except the one name of the child
\* context, bound to a new context. So every sibling of a step starts from
\* the store the step itself started from: a context introduced by a step
\* is not visible to a later sibling.
C29_ParentStoreUnchanged ==
  Running0 =>
    /\ frames[1].contextMap = ("root" :> 1)
    /\ \A k \in 2..Len(frames) :
         LET parent == frames[k - 1]
             store == frames[k].contextMap
         IN /\ store = parent.childContextMap
            /\ DOMAIN store = DOMAIN parent.contextMap \cup {parent.thisContextKey}
            /\ \A n \in DOMAIN parent.contextMap \ {parent.thisContextKey} :
                 store[n] = parent.contextMap[n]
            /\ \A n \in DOMAIN parent.contextMap : store[parent.thisContextKey] # parent.contextMap[n]

\* the second step of the manifest runs after a forEach that introduced
\* contexts named "item", and has built the child store of its page
C29_Witness ==
  /\ Running0
  /\ Len(Config.Steps) = 2
  /\ Config.Steps[1].Type = "forEach"
  /\ frames[1].step = Config.Steps[2]
  /\ \E c \in DOMAIN contexts : contexts[c].key = "item"
  /\ Top.pc = "nested"

PathStream(data, path) ==
  CASE path = "." -> <<data>>
    [] path = ".items" -> <<Field(data, "items")>>
    [] path = ".items[]" -> Field(data, "items").v
    [] OTHER -> <<Field(data, "items"), Field(data, "next")>>

AtForEachExtract ==
  /\ Running0
  /\ Top.pc = "start"
  /\ Top.step.Type = "forEach"
  /\ Top.step.Values = <<>>
  /\ ~PathFails(Top.step, contexts[Top.currentContext].Data)

ItemsOf(f) == [k \in DOMAIN f.results |-> f.results[k].item]

\* C31: a forEach whose path yields no value runs no iteration and merges an
\* empty sequence; a path that yields exactly one value, a sequence, gives one
\* iteration per element of it; a path that yields exactly one value that is
\* no sequence gives one iteration over that value.
C31_PathItems ==
  [][/\ AtForEachExtract =>
          LET values == PathStream(contexts[Top.currentContext].Data, Top.step.Path)
              got == ItemsOf(frames'[Len(frames)])
          IN /\ Len(frames') = Len(frames)
             /\ Len(values) = 0 => got = <<>>
             /\ (Len(values) = 1 /\ values[1].kind = "seq") => got = values[1].v
             /\ (Len(values) = 1 /\ values[1].kind # "seq") => got = values
     /\ (AtForEachMerge /\ Top.results = <<>> /\ clock' = clock /\ cancelled' = cancelled) =>
          /\ Top.executionResults = <<>>
          /\ runPc' # "failed"
          /\ Top.step.Path \in {".", ".items"} /\ ~hasCustomMerge(Top.step) =>
               LET new == PathStream(contexts'[Top.currentContext].Data, Top.step.Path)[1]
               IN new.kind = "seq" /\ new.v = <<>>]_vars

\* a forEach over a path of no value has merged
C31_Witness ==
  /\ Running0
  /\ Len(frames) = 1
  /\ Top.step.Type = "request"
  /\ Top.nestedIdx = 2
  /\ Top.step.Steps[1].Type = "forEach"
  /\ Top.step.Steps[1].Path = ".items[]"
  /\ Top.resp.body.kind = "map"
  /\ Top.resp.body.v["items"].v = <<>>

\* iteration i has sent the request of its nested step
HasIssued(i) ==
  IF step.Parallel
    THEN pc[i] \in {"lock", "apply", "write", "send", "exited"}
    ELSE i < seqIdx \/ (i = seqIdx /\ mainPc = "failed")

\* C32: when the forEach step configures rateLimit, every iteration, in serial
\* as in parallel execution, has taken a token from the bucket of the step
\* before its nested step sends an HTTP request.
C32_TokenBeforeRequest ==
  step.RateLimit.RequestsPerSecond > 0 => \A i \in Workers : HasIssued(i) => i \in took

\* the positions at which a worker assigns the data of a context
Writing == {"write", "patch"}

\* C33: while iterations of a parallel forEach are active, every write to the
\* data of a context (the merges of the nested steps, the default patch of a
\* forEach) is made by a holder of the merge mutex of the crawl.
C33_WritesUnderMergeMutex ==
  [][\A i \in DOMAIN pc :
       (step.Parallel /\ pc[i] \in Writing /\ pc'[i] # pc[i]) => mergeMutex = i]_vars

\* the START event an END event closes
StartOf(type) ==
  CASE type = "REQUEST_STEP_END" -> "REQUEST_STEP_START"
    [] type = "REQUEST_PAGE_END" -> "REQUEST_PAGE_START"
    [] type = "FOREACH_STEP_END" -> "FOREACH_STEP_START"
    [] type = "AUTH_LOGIN_END" -> "AUTH_LOGIN_START"
    [] type = "AUTH_END" -> "AUTH_START"
    [] OTHER -> ""

\* C34: every END event sent to the profiler (request step, request page,
\* forEach step, authentication, login) carries the ID of a START event of
\* the matching kind sent earlier in the same run.
C34_EndReusesStartID ==
  \A k \in DOMAIN events :
    StartOf(events[k].Type) # "" =>
      \E j \in 1..(k - 1) : /\ events[j].Type = StartOf(events[k].Type)
                             /\ events[j].ID = events[k].ID

\* the frame has bound a context to thisContextKey and runs its nested steps
Binding(f) == f.pc = "nested"

\* the frame at the top is a request step about to run its merge directive
\* mergeWithContext on the name n
MergesInto(n) ==
  /\ Running0
  /\ Top.step.Type = "request"
  /\ Top.pc = "nested"
  /\ Top.nestedIdx \notin DOMAIN Top.step.Steps
  /\ ~Top.step.NoopMerge /\ Top.step.MergeOn = "" /\ Top.step.MergeWithParentOn = ""
  /\ Top.step.MergeWithContext.Name = n

\* the responses the request steps below the steps sub merge into the
\* context named n (one page per request, one iteration per value)
RECURSIVE MergesBelow(_, _)
MergesBelow(sub, n) ==
  IF sub = <<>> THEN 0
  ELSE LET st == sub[1]
           own == IF st.Type = "request" /\ st.MergeWithContext.Name = n THEN 1 ELSE 0
           times == IF st.Type = "request" THEN 1 ELSE Len(st.Values)
       IN own + times * MergesBelow(st.Steps, n) + MergesBelow(Tail(sub), n)

\* a step below binds the name n again: a forEach as n, a request as n, or
\* a request without as that has nested steps and runs in the context n
RECURSIVE Rebinds(_, _, _)
Rebinds(sub, n, key) ==
  /\ sub # <<>>
  /\ LET st == sub[1]
         k == IF st.As # "" THEN st.As ELSE key
     IN \/ st.Steps # <<>> /\ k = n
        \/ Rebinds(st.Steps, n, k)
        \/ Rebinds(Tail(sub), n, key)

\* the data of context c holds one entry of details per merged response
HoldsDetails(data, count) ==
  count > 0 => /\ data.kind = "map"
               /\ "details" \in DOMAIN data.v
               /\ Len(data.v["details"].v) = count

\* the frame at the top is a forEach step about to collect its iteration
AtCollect ==
  /\ Running0
  /\ Top.step.Type = "forEach"
  /\ Top.pc = "nested"
  /\ Top.nestedIdx \notin DOMAIN Top.step.Steps

ToLower(str) ==
  CASE str \in {"forEach", "foreach", "ForEach"} -> "foreach"
    [] str \in {"request", "Request"} -> "request"
    [] OTHER -> str

\* the step types validateStep lets pass
StepTypeAccepted(type) == ToLower(type) \in {"foreach", "request"}

\* a field of an auth section; the zero value when the manifest has none
Attr(a, f) == IF f \in DOMAIN a THEN a[f] ELSE ""

\* validateAuth: the locations of its errors
validateAuth(a) ==
  LET t == ToLower(a.Type)
      method == Attr(a, "Method")
  IN (IF t \notin {"basic", "bearer", "oauth"} THEN {"type"} ELSE {})
       \cup (IF t = "bearer" /\ Attr(a, "Token") = "" THEN {"token"} ELSE {})
       \cup (IF t = "oauth" /\ method \notin {"password", "client_credentials"}
               THEN {"method"} ELSE {})
       \cup (IF t = "oauth" /\ Attr(a, "TokenURL") = "" THEN {"tokenUrl"} ELSE {})
       \cup (IF t = "oauth" /\ method = "client_credentials" /\ Attr(a, "ClientID") = ""
               THEN {"clientId"} ELSE {})
       \cup (IF t = "oauth" /\ method = "client_credentials" /\ Attr(a, "ClientSecret") = ""
               THEN {"clientSecret"} ELSE {})
       \cup (IF t \in {"oauth", "basic"} /\ (t = "basic" \/ method = "password")
                 /\ Attr(a, "Username") = "" THEN {"username"} ELSE {})
       \cup (IF t \in {"oauth", "basic"} /\ (t = "basic" \/ method = "password")
                 /\ Attr(a, "Password") = "" THEN {"password"} ELSE {})

\* validateRequest; every request of the manifests is a GET
validateRequest(req) ==
  (IF req.URL = "" THEN {"url"} ELSE {})
    \cup (IF req.Authentication # NoAuth
            THEN {"auth." \o e : e \in validateAuth(req.Authentication)} ELSE {})
    \cup (IF (Len(req.Pagination.Params) > 0 \/ Len(req.Pagination.StopOn) > 0)
              /\ Len(req.Pagination.StopOn) = 0 /\ req.Pagination.NextPageUrlSelector = ""
            THEN {"pagination.stopOn"} ELSE {})

\* validateStep, with the nested steps
RECURSIVE validateSteps(_)
validateStep(st) ==
  LET t == ToLower(st.Type)
      mwc == st.MergeWithContext
  IN IF ~StepTypeAccepted(st.Type) THEN {"type"}
     ELSE (IF t = "foreach" /\ st.Path = "" THEN {"path"} ELSE {})
            \cup (IF t = "foreach" /\ st.As = "" THEN {"as"} ELSE {})
            \cup (IF t = "foreach" /\ mwc # NoMergeWithContext
                      /\ (mwc.Name = "" \/ mwc.Rule = "")
                    THEN {"mergeWithContext"} ELSE {})
            \cup (IF t = "request" THEN validateRequest(st.Request) ELSE {})
            \cup validateSteps(st.Steps)
            \cup (IF st.NoopMerge /\ (st.MergeOn # "" \/ st.MergeWithParentOn # ""
                                        \/ mwc # NoMergeWithContext)
                    THEN {"noopMerge"} ELSE {})

validateSteps(sub) ==
  IF sub = <<>> THEN {} ELSE validateStep(sub[1]) \cup validateSteps(Tail(sub))

\* ValidateConfig: the locations of the errors; NewApiCrawler builds the
\* crawler when there is none
ValidateConfig(cfg) ==
  (IF cfg.RootContext.kind \notin {"seq", "map"} THEN {"rootContext"} ELSE {})
    \cup (IF cfg.Stream /\ cfg.RootContext.kind # "seq" THEN {"stream"} ELSE {})
    \cup (IF cfg.Authentication # NoAuth
            THEN {"auth." \o e : e \in validateAuth(cfg.Authentication)} ELSE {})
    \cup (IF cfg.Steps = <<>> THEN {"steps"} ELSE validateSteps(cfg.Steps))

\* C36: a manifest the validator accepts never fails in ExecuteStep with
\* 'unknown step type'.
C36_AcceptedTypesExecute ==
  ValidateConfig(Config) = {} => runError # "unknown step type"

\* the auth sections of a manifest: the global one and those of the steps
RECURSIVE AuthSections(_)
AuthSections(sub) ==
  IF sub = <<>> THEN {}
  ELSE (IF sub[1].Type = "request" THEN {sub[1].Request.Authentication} ELSE {})
         \cup AuthSections(sub[1].Steps) \cup AuthSections(Tail(sub))

\* the fields NewAuthenticator reads for the type are set
HasRequiredFields(a) ==
  CASE a.Type = "basic" -> Attr(a, "Username") # "" /\ Attr(a, "Password") # ""
    [] a.Type = "bearer" -> Attr(a, "Token") # ""
    [] a.Type = "oauth" -> Attr(a, "Method") # "" /\ Attr(a, "TokenURL") # ""
    [] a.Type = "cookie" -> a.ExtractSelector # ""
    [] a.Type = "jwt" -> a.ExtractSelector # ""
    [] a.Type = "custom" -> a.ExtractSelector # "" /\ a.InjectInto # ""
    [] OTHER -> FALSE

\* C37: an auth section of a supported type (basic, bearer, oauth, cookie,
\* jwt, custom) with its required fields passes validateAuth, wherever it
\* stands in the manifest of a run.
C37_SupportedAuthAccepted ==
  \A a \in ({Config.Authentication} \cup AuthSections(Config.Steps)) \ {NoAuth} :
    HasRequiredFields(a) => validateAuth(a) = {}

\* the merge the step on top of the stack is about to run, and the depth
\* down to which its handler drains
MergeDue ==
  IF AtRequestMerge
    THEN [limit |-> 0,
          m |-> performMerge(contexts,
                  [step |-> Top.step, currentContext |-> Top.currentContext,
                   contextMap |-> Top.contextMap,
                   result |-> contexts[Top.childContextMap[Top.thisContextKey]].Data])]
    ELSE [limit |-> 1,
          m |-> IF hasCustomMerge(Top.step)
                  THEN performMerge(contexts,
                         [step |-> Top.step, currentContext |-> Top.currentContext,
                          contextMap |-> Top.contextMap,
                          result |-> JSeq(Top.executionResults)])
                  ELSE PatchOutcome(contexts, Top.step, Top.currentContext,
                                    Top.executionResults)]

\* the merge succeeds and the stream check of the handler drains
DrainRuns ==
  /\ AtRequestMerge \/ AtForEachMerge
  /\ Config.Stream
  /\ ~MergeDue.m.panic
  /\ MergeDue.m.err = ""
  /\ MergeDue.m.ctxs[Top.currentContext].depth <= MergeDue.limit

\* C38: in a run of a validated manifest with stream: true, the data a
\* drain reads (request step at depth 0, forEach step at depth <= 1) is a
\* sequence.
C38_DrainedDataIsSequence ==
  (ValidateConfig(Config) = {} /\ DrainRuns) =>
    MergeDue.m.ctxs[Top.currentContext].Data.kind = "seq"

\* executeForEachParallel has returned to handleForEach, with the results
\* or with the error of an iteration
ParallelReturned == step.Parallel /\ mainPc \in {"failed", "merge", "done"}

\* C39: when the parallel forEach has returned, with results or with an
\* error, every worker it launched has ended.
C39_NoWorkerAfterReturn ==
  ParallelReturned => \A i \in DOMAIN pc : pc[i] = "exited"

\* SpecParLive: the goroutines of the parallel forEach are scheduled, the
\* nested requests are answered and the rate limiter refills: a step that
\* can be taken is taken in the end
SpecParLive == SpecPar /\ WF_vars(NextPar)

\* C40: a parallel forEach over a finite list returns; every worker that
\* was launched ends, having taken a slot and sent its result; and the
\* results channel is closed in the end.
C40_ParallelTerminates ==
  /\ (step.Parallel /\ mainPc = "collect") ~> (mainPc # "collect" /\ closed)
  /\ \A i \in 1..MaxItems :
       (i \in DOMAIN pc /\ pc[i] = "spawned") ~> (i \in DOMAIN pc /\ pc[i] = "exited")
====
